---- MODULE Spec2Model ----
(***************************************************************************)
(* Retrieval-augmented answering pipeline of the generic data RAG agent:   *)
(* chunk normalisation (services/indexer.py), retrieval merge, prompt      *)
(* assembly and answer synthesis (services/retriever.py), the chat         *)
(* endpoint (routers/chat.py), upload, indexing and deletion of documents  *)
(* (routers/files.py, storage.py, services/ingestion.py) and the           *)
(* conversation history (routers/history.py, services/history.py).         *)
(*                                                                         *)
(* Text is a sequence of one-character strings, so len(), slicing,         *)
(* startswith() and the brace scan are computed character by character.    *)
(* Python values are tagged records (PyNone, PyStr, PyInt, ...); a dict is *)
(* an insertion-ordered sequence of <<key, value>> records.  The backtick  *)
(* is not a character of TLA+ strings; it is written "~" throughout.       *)
(***************************************************************************)
EXTENDS Integers, Sequences, FiniteSets, TLC

VARIABLES chroma, gemini_configured, prompt, op, args, ret,
          uploads, task, deletion, gemini_calls, conversations

vars == <<chroma, gemini_configured, prompt, op, args, ret,
          uploads, task, deletion, gemini_calls, conversations>>

\* the state of the upload store, of the background indexing task and of the
\* delete request, the number of generate_content calls made by the request
\* in progress, and the stored conversations
storeVars == <<uploads, task, deletion, gemini_calls, conversations>>

\* no run of process_and_index_file: its position, the number of the run,
\* the parser output, how the run ended and how the run before it ended
IdleTask ==
    [pc |-> "none", run |-> 0, raw |-> [t |-> "None"], result |-> "none", prev |-> "none"]

\* no delete request: its position, the status of its response, whether the
\* collection existed, whether delete_collection succeeded, and whether
\* delete_file_from_index returned
IdleDeletion ==
    [pc |-> "none", status |-> 0, existed |-> FALSE, deleted |-> FALSE, returned |-> FALSE]

\* nothing is uploaded, no task, no delete request, no backend call and no
\* conversation
IdleStore ==
    /\ uploads = <<>>
    /\ task = IdleTask
    /\ deletion = IdleDeletion
    /\ gemini_calls = 0
    /\ conversations = <<>>

\* ------------------------------------------------------------------------
\* String literals of the source, character by character
\* ------------------------------------------------------------------------
K_sheet == <<"s", "h", "e", "e", "t">>
K_row_index == <<"r", "o", "w", "_", "i", "n", "d", "e", "x">>
K_page == <<"p", "a", "g", "e">>
K_paragraph_index == <<"p", "a", "r", "a", "g", "r", "a", "p", "h", "_", "i", "n", "d", "e", "x">>
K_file_name == <<"f", "i", "l", "e", "_", "n", "a", "m", "e">>
K_file_id == <<"f", "i", "l", "e", "_", "i", "d">>
K_collection == <<"c", "o", "l", "l", "e", "c", "t", "i", "o", "n">>
K_answer == <<"a", "n", "s", "w", "e", "r">>
K_citations == <<"c", "i", "t", "a", "t", "i", "o", "n", "s">>
K_anchors == <<"a", "n", "c", "h", "o", "r", "s">>
K_snippet == <<"s", "n", "i", "p", "p", "e", "t">>
K_confidence == <<"c", "o", "n", "f", "i", "d", "e", "n", "c", "e">>
S_source_open == <<"S", "O", "U", "R", "C", "E", "[">>
S_source_close == <<"]", ":", " ">>
S_no_context == <<"N", "o", " ", "r", "e", "l", "e", "v", "a", "n", "t", " ", "d", "a", "t", "a",
    " ", "a", "v", "a", "i", "l", "a", "b", "l", "e", ".">>
S_ellipsis == <<".", ".", ".">>
S_according_to == <<"A", "c", "c", "o", "r", "d", "i", "n", "g", " ", "t", "o", " ">>
S_based_on == <<"B", "a", "s", "e", "d", " ", "o", "n", " ", "t", "h", "e", " ", "r", "e", "t",
    "r", "i", "e", "v", "e", "d", " ", "d", "o", "c", "u", "m", "e", "n", "t", "s", ":", "\n",
    "\n">>
S_no_data == <<"N", "o", " ", "r", "e", "l", "e", "v", "a", "n", "t", " ", "d", "a", "t", "a", " ",
    "f", "o", "u", "n", "d", " ", "t", "o", " ", "a", "n", "s", "w", "e", "r", " ", "t", "h", "e",
    " ", "q", "u", "e", "s", "t", "i", "o", "n", ".">>
S_formatting_issue == <<"I", " ", "c", "a", "n", " ", "p", "r", "o", "v", "i", "d", "e", " ", "i",
    "n", "f", "o", "r", "m", "a", "t", "i", "o", "n", " ", "b", "a", "s", "e", "d", " ", "o", "n",
    " ", "t", "h", "e", " ", "d", "a", "t", "a", ",", " ", "t", "h", "o", "u", "g", "h", " ", "t",
    "h", "e", "r", "e", " ", "w", "a", "s", " ", "a", " ", "f", "o", "r", "m", "a", "t", "t", "i",
    "n", "g", " ", "i", "s", "s", "u", "e", " ", "w", "i", "t", "h", " ", "t", "h", "e", " ", "s",
    "t", "r", "u", "c", "t", "u", "r", "e", "d", " ", "r", "e", "s", "p", "o", "n", "s", "e", ":",
    " ">>
S_fence_json == <<"~", "~", "~", "j", "s", "o", "n">>
S_fence == <<"~", "~", "~">>

T_valid == <<"{", "\"", "a", "n", "s", "w", "e", "r", "\"", ":", "\"", "X", "\"", ",", "\"", "c",
    "i", "t", "a", "t", "i", "o", "n", "s", "\"", ":", "[", "]", "}">>
T_fenced == <<"~", "~", "~", "j", "s", "o", "n", "\n", "{", "\"", "a", "n", "s", "w", "e", "r",
    "\"", ":", "\"", "X", "\"", ",", "\"", "c", "i", "t", "a", "t", "i", "o", "n", "s", "\"", ":",
    "[", "]", "}", "\n", "~", "~", "~">>
T_mixed == <<"H", "e", "r", "e", ":", " ", "{", "\"", "a", "n", "s", "w", "e", "r", "\"", ":",
    "\"", "X", "\"", ",", "\"", "c", "i", "t", "a", "t", "i", "o", "n", "s", "\"", ":", "[", "]",
    "}", " ", "o", "k">>
T_unterminated == <<"{", "\"", "a", "n", "s", "w", "e", "r", "\"", ":", " ", "\"", "p", "a", "r",
    "t", "i", "a", "l", " ", "t", "e", "x", "t">>
T_no_answer_key == <<"{", "\"", "f", "o", "o", "\"", ":", "1", "}">>
T_array == <<"[", "1", "]">>
T_number == <<"5">>
T_empty_object == <<"{", "}">>
T_null == <<"n", "u", "l", "l">>
T_string == <<"\"", "h", "i", "\"">>
T_garbage == <<"s", "o", "r", "r", "y">>
T_empty == <<>>
T_citation_without_ids == <<"{", "\"", "a", "n", "s", "w", "e", "r", "\"", ":", "\"", "X", "\"",
    ",", "\"", "c", "i", "t", "a", "t", "i", "o", "n", "s", "\"", ":", "[", "{", "\"", "s", "n",
    "i", "p", "p", "e", "t", "\"", ":", "\"", "s", "\"", "}", "]", "}">>
T_answer_not_string == <<"{", "\"", "a", "n", "s", "w", "e", "r", "\"", ":", "5", ",", "\"", "c",
    "i", "t", "a", "t", "i", "o", "n", "s", "\"", ":", "[", "]", "}">>
T_no_citations_key == <<"{", "\"", "a", "n", "s", "w", "e", "r", "\"", ":", "\"", "X", "\"", "}">>
T_citations_not_array == <<"{", "\"", "a", "n", "s", "w", "e", "r", "\"", ":", "\"", "X", "\"",
    ",", "\"", "c", "i", "t", "a", "t", "i", "o", "n", "s", "\"", ":", "\"", "n", "o", "n", "e",
    "\"", "}">>
T_extra_brace == <<"{", "\"", "a", "n", "s", "w", "e", "r", "\"", ":", "\"", "X", "\"", ",", "\"",
    "c", "i", "t", "a", "t", "i", "o", "n", "s", "\"", ":", "[", "]", "}", "}", " ", "x">>
T_empty_answer == <<"{", "\"", "a", "n", "s", "w", "e", "r", "\"", ":", "\"", "\"", ",", "\"", "c",
    "i", "t", "a", "t", "i", "o", "n", "s", "\"", ":", "[", "]", "}">>
T_full_citation == <<"{", "\"", "a", "n", "s", "w", "e", "r", "\"", ":", "\"", "X", "\"", ",",
    "\"", "c", "i", "t", "a", "t", "i", "o", "n", "s", "\"", ":", "[", "{", "\"", "f", "i", "l",
    "e", "_", "i", "d", "\"", ":", "\"", "A", "\"", ",", "\"", "f", "i", "l", "e", "_", "n", "a",
    "m", "e", "\"", ":", "\"", "A", "\"", ",", "\"", "s", "n", "i", "p", "p", "e", "t", "\"", ":",
    "\"", "s", "\"", ",", "\"", "c", "o", "n", "f", "i", "d", "e", "n", "c", "e", "\"", ":", "1",
    "}", "]", "}">>
S_null == <<"n", "u", "l", "l">>
S_true == <<"t", "r", "u", "e">>
S_false == <<"f", "a", "l", "s", "e">>

S_py_None == <<"N", "o", "n", "e">>
S_py_True == <<"T", "r", "u", "e">>
S_py_False == <<"F", "a", "l", "s", "e">>

S_B_pdf == <<"B", ".", "p", "d", "f">>

K_text == <<"t", "e", "x", "t">>
K_content == <<"c", "o", "n", "t", "e", "n", "t">>
K_document == <<"d", "o", "c", "u", "m", "e", "n", "t">>
K_row_text == <<"r", "o", "w", "_", "t", "e", "x", "t">>
K_chunk == <<"c", "h", "u", "n", "k">>
K_excerpt == <<"e", "x", "c", "e", "r", "p", "t">>
K_original_row == <<"o", "r", "i", "g", "i", "n", "a", "l", "_", "r", "o", "w">>
K_meta == <<"m", "e", "t", "a">>
K_id == <<"i", "d">>
S_txt == <<":", ":", "t", "x", "t", ":", ":">>
S_item == <<":", ":", "i", "t", "e", "m", ":", ":">>
S_list == <<":", ":", "l", "i", "s", "t", ":", ":">>
S_colons == <<":", ":">>
S_bar == <<" ", "|", " ">>
S_hello == <<"h", "e", "l", "l", "o">>
S_blank == <<" ", "\n", " ">>

\* ------------------------------------------------------------------------
\* Python values
\* ------------------------------------------------------------------------
PyNone == [t |-> "None"]

PyStr(s) == [t |-> "str", s |-> s]

PyInt(n) == [t |-> "int", n |-> n]

PyBool(b) == [t |-> "bool", b |-> b]

PyList(e) == [t |-> "list", e |-> e]

PyDict(m) == [t |-> "dict", m |-> m]

\* a float, kept in halves: PyFloat2(1) is 0.5, PyFloat2(2) is 1.0
PyFloat2(h) == [t |-> "float", h |-> h]

\* key in d  (d is the pair sequence of a dict)
HasKey(m, k) == \E i \in 1..Len(m) : m[i].k = k

\* d[key]
Lookup(m, k) == m[CHOOSE i \in 1..Len(m) : m[i].k = k].v

\* d.get(key, default)
DictGet(m, k, default) == IF HasKey(m, k) THEN Lookup(m, k) ELSE default

\* d[key] = value, keeping the position of an existing key
DictPut(m, k, v) ==
    IF HasKey(m, k)
    THEN [i \in 1..Len(m) |-> IF m[i].k = k THEN [k |-> k, v |-> v] ELSE m[i]]
    ELSE Append(m, [k |-> k, v |-> v])

\* Python truthiness: bool(v)
Truthy(v) ==
    CASE v.t = "None"  -> FALSE
      [] v.t = "bool"  -> v.b
      [] v.t = "int"   -> v.n # 0
      [] v.t = "float" -> v.h # 0
      [] v.t = "str"   -> v.s # <<>>
      [] v.t = "list"  -> v.e # <<>>
      [] v.t = "dict"  -> v.m # <<>>

\* the decimal digits, Digits[n + 1] for n
Digits == <<"0", "1", "2", "3", "4", "5", "6", "7", "8", "9">>

Min(a, b) == IF a <= b THEN a ELSE b

\* s[:n] without the cut
PrefixUncut(s, n) == s

\* s[:n]
Prefix(s, n) == SubSeq(s, 1, Min(n, Len(s)))

\* s[n:]
DropFirst(s, n) == SubSeq(s, n + 1, Len(s))

\* s.startswith(p)
StartsWith(s, p) == Len(s) >= Len(p) /\ SubSeq(s, 1, Len(p)) = p

\* s.endswith(p)
EndsWith(s, p) == Len(s) >= Len(p) /\ SubSeq(s, Len(s) - Len(p) + 1, Len(s)) = p

RECURSIVE Join(_, _)
\* sep.join(parts), computed by halves
Join(sep, parts) ==
    IF parts = <<>> THEN <<>>
    ELSE IF Len(parts) = 1 THEN parts[1]
    ELSE LET h == Len(parts) \div 2
         IN  Join(sep, SubSeq(parts, 1, h)) \o sep \o Join(sep, SubSeq(parts, h + 1, Len(parts)))

RECURSIVE Concat(_)
\* the concatenation of a sequence of sequences
Concat(ss) == IF ss = <<>> THEN <<>> ELSE ss[1] \o Concat(Tail(ss))

\* ------------------------------------------------------------------------
\* Vector index (Chroma) as seen by the retriever
\* ------------------------------------------------------------------------
\* distance None of a query hit (retriever.py:90), as an integer outside the distances
NoneDistance == -1

\* float("inf") (retriever.py:114), above every distance of the index
Inf == 1000000

Coll_A == <<"A">>

Coll_B == <<"B">>

\* a name no collection has
Coll_Z == <<"Z">>

Collections == {Coll_A, Coll_B}

\* the order in which client.list_collections() reports the collections
CollectionOrder == <<Coll_A, Coll_B>>

\* _list_all_collections(client): the names of the existing collections
_list_all_collections(db) ==
    LET Exists(c) == c \in DOMAIN db
    IN  SelectSeq(CollectionOrder, Exists)

\* what the index holds for a collection whose coll.query raises
QueryRaises == <<[raises |-> TRUE]>>

\* _query_collection(client, collection_name, query, top_k): a missing
\* collection gives [] (lines 64-68), a collection whose coll.query raises
\* gives [] (lines 94-96), otherwise the n_results = top_k first hits of the
\* collection, each tagged with the collection name
_query_collection(db, collection_name, top_k) ==
    IF collection_name \notin DOMAIN db THEN <<>>
    ELSE IF db[collection_name] = QueryRaises THEN <<>>
    ELSE LET hits == db[collection_name]
         IN  [i \in 1..Min(top_k, Len(hits)) |->
                [id         |-> hits[i].id,
                 document   |-> hits[i].document,
                 metadata   |-> hits[i].metadata,
                 distance   |-> hits[i].distance,
                 collection |-> collection_name]]

\* retrieve_top_k, lines 112-115: a missing distance becomes float("inf")
FillDistance(r) ==
    IF r.distance = NoneDistance THEN [r EXCEPT !.distance = Inf] ELSE r

AllResultsAbort(db, target_collections, top_k) ==
    IF \E j \in 1..Len(target_collections) :
          target_collections[j] \notin DOMAIN db
          \/ db[target_collections[j]] = QueryRaises
    THEN <<>>
    ELSE Concat([j \in 1..Len(target_collections) |->
                   LET res == _query_collection(db, target_collections[j], top_k)
                   IN  [i \in 1..Len(res) |-> FillDistance(res[i])]])

\* retrieve_top_k, lines 108-117: the per-collection results, concatenated in
\* the order of the target collections
AllResults(db, target_collections, top_k) ==
    Concat([j \in 1..Len(target_collections) |->
              LET res == _query_collection(db, target_collections[j], top_k)
              IN  [i \in 1..Len(res) |-> FillDistance(res[i])]])

RECURSIVE InsertByDistance(_, _)
\* r placed behind every element whose distance is not larger (list.sort is stable)
InsertByDistance(sorted, r) ==
    IF sorted = <<>> THEN <<r>>
    ELSE LET last == sorted[Len(sorted)]
         IN  IF last.distance <= r.distance THEN Append(sorted, r)
             ELSE Append(InsertByDistance(SubSeq(sorted, 1, Len(sorted) - 1), r), last)

SortByDistanceUnsorted(rs) == rs

RECURSIVE SortByDistance(_)
\* all_results.sort(key=lambda x: x.get("distance", float("inf")))
SortByDistance(rs) ==
    IF rs = <<>> THEN <<>>
    ELSE InsertByDistance(SortByDistance(SubSeq(rs, 1, Len(rs) - 1)), rs[Len(rs)])

RECURSIVE DedupeLateBreak(_, _, _, _, _)
DedupeLateBreak(rs, i, seen, deduped, top_k) ==
    IF i > Len(rs) THEN deduped
    ELSE LET key == <<rs[i].collection, rs[i].id>>
         IN  IF key \in seen THEN DedupeLateBreak(rs, i + 1, seen, deduped, top_k)
             ELSE LET d2 == Append(deduped, rs[i])
                  IN  IF Len(d2) > top_k THEN d2
                      ELSE DedupeLateBreak(rs, i + 1, seen \cup {key}, d2, top_k)

RECURSIVE DedupeFrom(_, _, _, _, _)
\* retrieve_top_k, lines 121-130: the loop from position i on
DedupeFrom(rs, i, seen, deduped, top_k) ==
    IF i > Len(rs) THEN deduped
    ELSE LET key == <<rs[i].collection, rs[i].id>>
         IN  IF key \in seen THEN DedupeFrom(rs, i + 1, seen, deduped, top_k)
             ELSE LET d2 == Append(deduped, rs[i])
                  IN  IF Len(d2) >= top_k THEN d2
                      ELSE DedupeFrom(rs, i + 1, seen \cup {key}, d2, top_k)

\* retrieve_top_k, lines 121-130: first occurrence of each (collection, id),
\* stopping at top_k entries
Dedupe(rs, top_k) == DedupeFrom(rs, 1, {}, <<>>, top_k)

TargetCollectionsAll(db, file_ids) == _list_all_collections(db)

\* retrieve_top_k, line 105: file_ids or _list_all_collections(client)
TargetCollections(db, file_ids) ==
    IF Truthy(file_ids) THEN file_ids.e ELSE _list_all_collections(db)

\* retrieve_top_k(query, top_k, file_ids)
retrieve_top_k(db, top_k, file_ids) ==
    Dedupe(SortByDistance(AllResults(db, TargetCollections(db, file_ids), top_k)), top_k)

\* ------------------------------------------------------------------------
\* json.loads on the JSON of the responses: objects, arrays, strings without
\* escapes, non-negative integers, true, false, null, blanks and newlines
\* ------------------------------------------------------------------------
JsonFail == [ok |-> FALSE]

JsonOk(v, i) == [ok |-> TRUE, v |-> v, i |-> i]

IsWhitespace(c) == c \in {" ", "\n"}

IsDigit(c) == c \in {"0", "1", "2", "3", "4", "5", "6", "7", "8", "9"}

DigitValue(c) == CHOOSE n \in 0..9 : Digits[n + 1] = c

RECURSIVE SkipWhitespace(_, _)
\* the first position from i on that holds no whitespace
SkipWhitespace(text, i) ==
    IF i <= Len(text) /\ IsWhitespace(text[i]) THEN SkipWhitespace(text, i + 1) ELSE i

\* text[i:].startswith(lit)
MatchesAt(text, i, lit) ==
    /\ i + Len(lit) - 1 <= Len(text)
    /\ SubSeq(text, i, i + Len(lit) - 1) = lit

RECURSIVE StringEnd(_, _)
\* the position of the quote that closes the string whose body starts at i,
\* 0 when the string is not closed or holds a newline
StringEnd(text, i) ==
    IF i > Len(text) \/ text[i] = "\n" THEN 0
    ELSE IF text[i] = "\"" THEN i
    ELSE StringEnd(text, i + 1)

RECURSIVE DigitsEnd(_, _)
\* the position behind the run of digits that starts at i
DigitsEnd(text, i) ==
    IF i <= Len(text) /\ IsDigit(text[i]) THEN DigitsEnd(text, i + 1) ELSE i

RECURSIVE DigitsToInt(_)
DigitsToInt(ds) ==
    IF ds = <<>> THEN 0
    ELSE 10 * DigitsToInt(SubSeq(ds, 1, Len(ds) - 1)) + DigitValue(ds[Len(ds)])

\* a string literal that starts at i
ParseString(text, i) ==
    IF i > Len(text) \/ text[i] # "\"" THEN JsonFail
    ELSE LET e == StringEnd(text, i + 1)
         IN  IF e = 0 THEN JsonFail ELSE JsonOk(SubSeq(text, i + 1, e - 1), e + 1)

\* an integer literal that starts at i (no leading zeros)
ParseNumber(text, i) ==
    LET e == DigitsEnd(text, i)
    IN  IF e = i \/ (e > i + 1 /\ text[i] = "0") THEN JsonFail
        ELSE IF e <= Len(text) /\ text[e] \in {".", "e", "E"} THEN JsonFail
        ELSE JsonOk(PyInt(DigitsToInt(SubSeq(text, i, e - 1))), e)

RECURSIVE ParseValue(_, _)
RECURSIVE ParseMembers(_, _, _)
RECURSIVE ParseElements(_, _, _)

\* the members of an object from position i (behind "{" or ","), added to acc
ParseMembers(text, i, acc) ==
    LET k == ParseString(text, SkipWhitespace(text, i))
    IN  IF ~k.ok THEN JsonFail
        ELSE LET c == SkipWhitespace(text, k.i)
             IN  IF c > Len(text) \/ text[c] # ":" THEN JsonFail
                 ELSE LET v == ParseValue(text, SkipWhitespace(text, c + 1))
                      IN  IF ~v.ok THEN JsonFail
                          ELSE LET acc2 == DictPut(acc, k.v, v.v)
                                   n    == SkipWhitespace(text, v.i)
                               IN  IF n > Len(text) THEN JsonFail
                                   ELSE IF text[n] = "}" THEN JsonOk(PyDict(acc2), n + 1)
                                   ELSE IF text[n] = "," THEN ParseMembers(text, n + 1, acc2)
                                   ELSE JsonFail

\* the elements of an array from position i (behind "[" or ","), added to acc
ParseElements(text, i, acc) ==
    LET v == ParseValue(text, SkipWhitespace(text, i))
    IN  IF ~v.ok THEN JsonFail
        ELSE LET acc2 == Append(acc, v.v)
                 n    == SkipWhitespace(text, v.i)
             IN  IF n > Len(text) THEN JsonFail
                 ELSE IF text[n] = "]" THEN JsonOk(PyList(acc2), n + 1)
                 ELSE IF text[n] = "," THEN ParseElements(text, n + 1, acc2)
                 ELSE JsonFail

\* the JSON value that starts at position i
ParseValue(text, i) ==
    IF i > Len(text) THEN JsonFail
    ELSE IF text[i] = "{" THEN
        LET n == SkipWhitespace(text, i + 1)
        IN  IF n <= Len(text) /\ text[n] = "}" THEN JsonOk(PyDict(<<>>), n + 1)
            ELSE ParseMembers(text, i + 1, <<>>)
    ELSE IF text[i] = "[" THEN
        LET n == SkipWhitespace(text, i + 1)
        IN  IF n <= Len(text) /\ text[n] = "]" THEN JsonOk(PyList(<<>>), n + 1)
            ELSE ParseElements(text, i + 1, <<>>)
    ELSE IF text[i] = "\"" THEN
        LET s == ParseString(text, i)
        IN  IF s.ok THEN JsonOk(PyStr(s.v), s.i) ELSE JsonFail
    ELSE IF MatchesAt(text, i, S_null) THEN JsonOk(PyNone, i + Len(S_null))
    ELSE IF MatchesAt(text, i, S_true) THEN JsonOk(PyBool(TRUE), i + Len(S_true))
    ELSE IF MatchesAt(text, i, S_false) THEN JsonOk(PyBool(FALSE), i + Len(S_false))
    ELSE ParseNumber(text, i)

\* json.loads(text): ok is FALSE where json.loads raises JSONDecodeError
json_loads(text) ==
    LET r == ParseValue(text, SkipWhitespace(text, 1))
    IN  IF r.ok /\ SkipWhitespace(text, r.i) = Len(text) + 1
        THEN [ok |-> TRUE, v |-> r.v]
        ELSE JsonFail

RECURSIVE LStrip(_)
LStrip(s) == IF s # <<>> /\ IsWhitespace(s[1]) THEN LStrip(Tail(s)) ELSE s

RECURSIVE RStrip(_)
RStrip(s) ==
    IF s # <<>> /\ IsWhitespace(s[Len(s)]) THEN RStrip(SubSeq(s, 1, Len(s) - 1)) ELSE s

\* s.strip()
Strip(s) == RStrip(LStrip(s))

\* ------------------------------------------------------------------------
\* The parse chain for the text of the generative backend
\* ------------------------------------------------------------------------
RECURSIVE ScanBraces(_, _, _, _)
\* _fix_unterminated_json, lines 295-304: the scan from position i on;
\* positions are 1-based here, so last_valid_pos = i is Python's i + 1 - 1 + 1
ScanBraces(text, i, brace_count, last_valid_pos) ==
    IF i > Len(text) THEN last_valid_pos
    ELSE IF text[i] = "{" THEN ScanBraces(text, i + 1, brace_count + 1, last_valid_pos)
    ELSE IF text[i] = "}" THEN
        ScanBraces(text, i + 1, brace_count - 1,
                   IF brace_count - 1 = 0 THEN i ELSE last_valid_pos)
    ELSE ScanBraces(text, i + 1, brace_count, last_valid_pos)

\* _fix_unterminated_json(text): the text up to the last brace that brings
\* the brace count back to zero, or the text itself
_fix_unterminated_json(text) ==
    LET last_valid_pos == ScanBraces(text, 1, 0, -1)
    IN  IF last_valid_pos > 0 THEN SubSeq(text, 1, last_valid_pos) ELSE text

\* re.search(r'\{.*\}', text, re.DOTALL): from the first "{" to the last "}"
\* behind it; found is FALSE when there is no match
SearchBraces(text) ==
    LET opens  == {i \in 1..Len(text) : text[i] = "{"}
        first  == CHOOSE i \in opens : \A j \in opens : i <= j
        closes == {i \in 1..Len(text) : text[i] = "}" /\ i > first}
        last   == CHOOSE i \in closes : \A j \in closes : j <= i
    IN  IF opens = {} THEN [found |-> FALSE]
        ELSE IF closes = {} THEN [found |-> FALSE]
        ELSE [found |-> TRUE, group |-> SubSeq(text, first, last)]

\* _create_fallback_json, line 316: the longest text copied into the answer
FALLBACK_TEXT_CHARS == 500

\* _create_fallback_json(text)
_create_fallback_json(text) ==
    LET answer == IF Len(text) > FALLBACK_TEXT_CHARS
                  THEN Prefix(text, FALLBACK_TEXT_CHARS) \o S_ellipsis
                  ELSE text
    IN  PyDict(<<[k |-> K_answer, v |-> PyStr(S_formatting_issue \o answer)],
                 [k |-> K_citations, v |-> PyList(<<>>)]>>)

\* _parse_json_response, lines 256-263: the text without its code fence
StripFence(text) ==
    LET cleaned_text == IF StartsWith(text, S_fence_json) THEN DropFirst(text, 7)
                        ELSE IF StartsWith(text, S_fence) THEN DropFirst(text, 3)
                        ELSE text
    IN  IF EndsWith(cleaned_text, S_fence)
        THEN SubSeq(cleaned_text, 1, Len(cleaned_text) - 3)
        ELSE cleaned_text

\* the strategy of _parse_json_response that decodes text: 1 direct, 2 fence
\* removed, 3 first "{" to last "}", 4 cut behind the last balanced brace,
\* 5 none of them
ParseStrategy(text) ==
    IF json_loads(text).ok THEN 1
    ELSE IF json_loads(Strip(StripFence(text))).ok THEN 2
    ELSE IF SearchBraces(text).found /\ json_loads(SearchBraces(text).group).ok THEN 3
    ELSE IF json_loads(_fix_unterminated_json(text)).ok THEN 4
    ELSE 5

\* _parse_json_response(text)
_parse_json_response(text) ==
    CASE ParseStrategy(text) = 1 -> json_loads(text).v
      [] ParseStrategy(text) = 2 -> json_loads(Strip(StripFence(text))).v
      [] ParseStrategy(text) = 3 -> json_loads(SearchBraces(text).group).v
      [] ParseStrategy(text) = 4 -> json_loads(_fix_unterminated_json(text)).v
      [] OTHER                   -> _create_fallback_json(text)

\* ------------------------------------------------------------------------
\* str() and repr() of Python values
\* ------------------------------------------------------------------------
RECURSIVE IntToChars(_)
\* str(n) of a non-negative integer
IntToChars(n) ==
    IF n < 10 THEN <<Digits[n + 1]>>
    ELSE IntToChars(n \div 10) \o <<Digits[(n % 10) + 1]>>

RECURSIVE Repr(_)
\* repr(v)
Repr(v) ==
    CASE v.t = "None" -> S_py_None
      [] v.t = "bool" -> IF v.b THEN S_py_True ELSE S_py_False
      [] v.t = "int"  -> IntToChars(v.n)
      [] v.t = "str"  -> <<"'">> \o v.s \o <<"'">>
      [] v.t = "list" -> <<"[">> \o Join(<<",", " ">>, [i \in 1..Len(v.e) |-> Repr(v.e[i])])
                                 \o <<"]">>
      [] v.t = "dict" -> <<"{">> \o Join(<<",", " ">>,
                                         [i \in 1..Len(v.m) |->
                                            <<"'">> \o v.m[i].k \o <<"'", ":", " ">>
                                                    \o Repr(v.m[i].v)])
                                 \o <<"}">>

\* str(v), the text an f-string puts for v
StrOf(v) == IF v.t = "str" THEN v.s ELSE Repr(v)

\* ------------------------------------------------------------------------
\* Prompt construction
\* ------------------------------------------------------------------------
\* settings.GEMINI_MAX_CONTEXT_CHARS, the default of max_chars
GEMINI_MAX_CONTEXT_CHARS == 4000

\* the locator keys of the metadata that become anchors
AnchorKeys == <<K_sheet, K_row_index, K_page, K_paragraph_index>>

\* lines 176-180 and 371-375: "k=v" for every locator key of meta, joined by ", "
AnchorText(meta) ==
    LET Present(k) == HasKey(meta, k)
        keys == SelectSeq(AnchorKeys, Present)
    IN  Join(<<",", " ">>,
             [i \in 1..Len(keys) |-> keys[i] \o <<"=">> \o StrOf(Lookup(meta, keys[i]))])

\* meta.get("file_name", file_id) with file_id = r.get("collection", "unknown")
FileNameOf(r) == DictGet(r.metadata, K_file_name, PyStr(r.collection))

\* line 183: the SOURCE line of one retrieval result
SourceLine(r) ==
    S_source_open \o r.collection \o <<"|">> \o StrOf(FileNameOf(r)) \o <<"|">>
                  \o AnchorText(r.metadata) \o S_source_close \o r.document

RECURSIVE ContextPartsSkip(_, _, _, _, _)
\* the loop with "continue" in place of the "break" of line 185: a result
\* whose line does not fit is skipped and later results are still appended
ContextPartsSkip(retrieved, i, total, ctx_parts, max_chars) ==
    IF i > Len(retrieved) THEN ctx_parts
    ELSE LET piece == SourceLine(retrieved[i])
         IN  IF total + Len(piece) > max_chars
             THEN ContextPartsSkip(retrieved, i + 1, total, ctx_parts, max_chars)
             ELSE ContextPartsSkip(retrieved, i + 1, total + Len(piece),
                                   Append(ctx_parts, piece), max_chars)

RECURSIVE ContextParts(_, _, _, _, _)
\* _build_structured_prompt, lines 167-187: the loop from result i on
ContextParts(retrieved, i, total, ctx_parts, max_chars) ==
    IF i > Len(retrieved) THEN ctx_parts
    ELSE LET piece == SourceLine(retrieved[i])
         IN  IF total + Len(piece) > max_chars THEN ctx_parts
             ELSE ContextParts(retrieved, i + 1, total + Len(piece),
                               Append(ctx_parts, piece), max_chars)

\* _build_structured_prompt(query, retrieved, max_chars): the context section
\* of the prompt, the text between "CONTEXT:\n" and "\n\nQUESTION:"; the
\* instruction block before it and the question behind it are fixed text
_build_structured_prompt(retrieved, max_chars) ==
    LET ctx_parts == ContextParts(retrieved, 1, 0, <<>>, max_chars)
    IN  IF ctx_parts # <<>> THEN Join(<<"\n", "\n">>, ctx_parts) ELSE S_no_context

\* ------------------------------------------------------------------------
\* Answer synthesis
\* ------------------------------------------------------------------------
\* line 382: the snippet of a citation keeps this many characters of the text
SNIPPET_CHARS == 200

\* line 386: a summary keeps this many characters of the text
SUMMARY_CHARS == 150

\* line 389: answer_parts[:3]
MAX_ANSWER_PARTS == 3

\* line 390: citations[:5]
MAX_CITATIONS == 5

\* line 382: the snippet of a fallback citation
SnippetOf(document) ==
    IF Len(document) > SNIPPET_CHARS
    THEN Prefix(document, SNIPPET_CHARS) \o S_ellipsis
    ELSE document

\* line 383: 1.0 - distance / 2.0, or 0.5 when the distance is None; in
\* halves, with float("inf") giving -inf
ConfidenceOf(distance) ==
    IF distance # NoneDistance
    THEN (IF distance = Inf THEN PyFloat2(-Inf) ELSE PyFloat2(2 - distance))
    ELSE PyFloat2(1)

\* lines 378-384: the citation of one retrieval result
FallbackCitation(r) ==
    PyDict(<<[k |-> K_file_id,    v |-> PyStr(r.collection)],
             [k |-> K_file_name,  v |-> FileNameOf(r)],
             [k |-> K_anchors,    v |-> PyStr(AnchorText(r.metadata))],
             [k |-> K_snippet,    v |-> PyStr(SnippetOf(r.document))],
             [k |-> K_confidence, v |-> ConfidenceOf(r.distance)]>>)

\* line 386: the summary of one retrieval result
AnswerPart(r) ==
    S_according_to \o StrOf(FileNameOf(r)) \o <<":", " ">>
                   \o Prefix(r.document, SUMMARY_CHARS) \o S_ellipsis

\* FallbackAnswer without the branch of line 392 for no results: the answer is
\* built from the (empty) list of summaries
FallbackAnswerAlways(retrieved) ==
    LET citations    == [i \in 1..Len(retrieved) |-> FallbackCitation(retrieved[i])]
        answer_parts == [i \in 1..Len(retrieved) |-> AnswerPart(retrieved[i])]
    IN  PyDict(<<[k |-> K_answer,
                  v |-> PyStr(S_based_on \o Join(<<"\n", "\n">>,
                                                 Prefix(answer_parts, MAX_ANSWER_PARTS)))],
                 [k |-> K_citations,
                  v |-> PyList(Prefix(citations, MAX_CITATIONS))]>>)

\* answer_query_structured, lines 360-396: the structured answer built from
\* the retrieved results
FallbackAnswer(retrieved) ==
    IF retrieved # <<>>
    THEN LET citations    == [i \in 1..Len(retrieved) |-> FallbackCitation(retrieved[i])]
             answer_parts == [i \in 1..Len(retrieved) |-> AnswerPart(retrieved[i])]
         IN  PyDict(<<[k |-> K_answer,
                       v |-> PyStr(S_based_on \o Join(<<"\n", "\n">>,
                                                      Prefix(answer_parts, MAX_ANSWER_PARTS)))],
                      [k |-> K_citations,
                       v |-> PyList(Prefix(citations, MAX_CITATIONS))]>>)
    ELSE PyDict(<<[k |-> K_answer,    v |-> PyStr(S_no_data)],
                  [k |-> K_citations, v |-> PyList(<<>>)]>>)

\* what one call of the generative backend does: it raises (timeout, quota,
\* blocked response, ...) or returns a text
GeminiRaises == [kind |-> "raise"]

GeminiReturns(text) == [kind |-> "text", text |-> text]

\* call_gemini_structured(prompt): the parsed response; only called on an
\* outcome that does not raise
call_gemini_structured(outcome) == _parse_json_response(Strip(outcome.text))

\* answer_query_structured(query, top_k, file_ids) on index db, with the
\* backend configured or not and behaving as outcome when called
answer_query_structured(db, configured, top_k, file_ids, outcome) ==
    LET retrieved   == retrieve_top_k(db, top_k, file_ids)
        raised      == configured /\ outcome.kind = "raise"
        gemini_used == configured /\ ~raised
        parsed      == IF configured /\ ~raised THEN call_gemini_structured(outcome)
                       ELSE PyNone
    IN  [structured_answer |-> IF ~Truthy(parsed) THEN FallbackAnswer(retrieved) ELSE parsed,
         sources           |-> retrieved,
         gemini_used       |-> gemini_used]

\* ------------------------------------------------------------------------
\* The chat endpoint
\* ------------------------------------------------------------------------
\* settings.RETRIEVER_TOP_K and the 5 of "req.top_k or 5"
DEFAULT_TOP_K == 5

\* pydantic accepts v for a field declared str
IsStr(v) == v.t = "str"

\* pydantic accepts v for a field declared Optional[str]
IsOptionalStr(v) == v.t \in {"str", "None"}

\* pydantic accepts v for a field declared Optional[float]
IsOptionalFloat(v) ==
    \/ v.t \in {"None", "int", "float", "bool"}
    \/ v.t = "str" /\ v.s # <<>> /\ \A i \in 1..Len(v.s) : IsDigit(v.s[i])

\* chat, lines 26-32: Citation(...) can be built from cit
CitationBuilds(cit) ==
    /\ cit.t = "dict"
    /\ HasKey(cit.m, K_file_id) /\ IsStr(Lookup(cit.m, K_file_id))
    /\ HasKey(cit.m, K_file_name) /\ IsStr(Lookup(cit.m, K_file_name))
    /\ IsOptionalStr(DictGet(cit.m, K_anchors, PyNone))
    /\ IsOptionalStr(DictGet(cit.m, K_snippet, PyNone))
    /\ IsOptionalFloat(DictGet(cit.m, K_confidence, PyNone))

\* chat, lines 25-34: the list comprehension over
\* structured_answer_data.get("citations", []) raises nothing
CitationsBuild(data) ==
    /\ data.t = "dict"
    /\ LET c == DictGet(data.m, K_citations, PyList(<<>>))
       IN  CASE c.t = "list" -> \A i \in 1..Len(c.e) : CitationBuilds(c.e[i])
             [] c.t = "str"  -> c.s = <<>>
             [] c.t = "dict" -> c.m = <<>>
             [] OTHER        -> FALSE

\* chat, lines 36-39: StructuredAnswer(answer=..., citations=...) is built
AnswerBuilds(data) ==
    /\ data.t = "dict"
    /\ HasKey(data.m, K_answer)
    /\ IsStr(Lookup(data.m, K_answer))

\* chat, lines 26-32: the Citation model built from cit
CitationModel(cit) ==
    [file_id    |-> Lookup(cit.m, K_file_id).s,
     file_name  |-> Lookup(cit.m, K_file_name).s,
     anchors    |-> DictGet(cit.m, K_anchors, PyNone),
     snippet    |-> DictGet(cit.m, K_snippet, PyNone),
     confidence |-> DictGet(cit.m, K_confidence, PyNone)]

\* chat(req), lines 23-55, on the result of answer_query_structured: the
\* ChatResponse with status 200, or the HTTPException with status 500 raised
\* for any exception of the handler body
chat(result) ==
    LET data   == result.structured_answer
        c      == DictGet(data.m, K_citations, PyList(<<>>))
    IN  IF CitationsBuild(data) /\ AnswerBuilds(data)
        THEN [status            |-> 200,
              structured_answer |->
                  [answer    |-> Lookup(data.m, K_answer).s,
                   citations |-> IF c.t = "list"
                                 THEN [i \in 1..Len(c.e) |-> CitationModel(c.e[i])]
                                 ELSE <<>>],
              sources           |-> result.sources,
              gemini_used       |-> result.gemini_used]
        ELSE [status |-> 500]

\* ------------------------------------------------------------------------
\* Chunk normalisation (services/indexer.py)
\* ------------------------------------------------------------------------
\* MAX_WORDS_PER_CHUNK, indexer.py:21
MAX_WORDS_PER_CHUNK == 250

RECURSIVE NextWhitespace(_, _, _)
\* the first position in i..hi that holds whitespace, hi + 1 when there is none
NextWhitespace(s, i, hi) ==
    IF i > hi \/ IsWhitespace(s[i]) THEN i ELSE NextWhitespace(s, i + 1, hi)

RECURSIVE PrevWhitespace(_, _, _)
\* the last position in lo..i that holds whitespace, lo - 1 when there is none
PrevWhitespace(s, i, lo) ==
    IF i < lo \/ IsWhitespace(s[i]) THEN i ELSE PrevWhitespace(s, i - 1, lo)

RECURSIVE WordsBetween(_, _, _)
\* the maximal runs of non-whitespace of s[lo..hi], in order, where no run
\* crosses lo or hi; computed around the run that holds the middle position
WordsBetween(s, lo, hi) ==
    IF lo > hi THEN <<>>
    ELSE LET m == (lo + hi) \div 2
             a == PrevWhitespace(s, m, lo)
             b == NextWhitespace(s, m, hi)
         IN  IF IsWhitespace(s[m])
             THEN WordsBetween(s, lo, m - 1) \o WordsBetween(s, m + 1, hi)
             ELSE WordsBetween(s, lo, a - 1) \o <<SubSeq(s, a + 1, b - 1)>>
                                            \o WordsBetween(s, b + 1, hi)

\* re.split(r"\s+", s) for a stripped s: the pieces of s between runs of
\* whitespace; [""] for the empty string
SplitWhitespace(s) == IF s = <<>> THEN <<<<>>>> ELSE WordsBetween(s, 1, Len(s))

RECURSIVE ChunksFrom(_, _, _, _)
\* _chunk_text, lines 59-63: the loop from word i on (1-based)
ChunksFrom(words, i, max_words, chunks) ==
    IF i > Len(words) THEN chunks
    ELSE LET chunk == Strip(Join(<<" ">>,
                                 SubSeq(words, i, Min(i + max_words - 1, Len(words)))))
         IN  ChunksFrom(words, i + max_words, max_words,
                        IF chunk # <<>> THEN Append(chunks, chunk) ELSE chunks)

\* _chunk_text(text, max_words)
_chunk_text(text, max_words) ==
    LET words == SplitWhitespace(Strip(text))
    IN  IF words = <<>> THEN <<>> ELSE ChunksFrom(words, 1, max_words, <<>>)

\* the keys _extract_text_from_dict looks at first, in its order
TextKeys == <<K_text, K_content, K_document, K_row_text, K_chunk, K_excerpt>>

\* isinstance(v, str) and v.strip()
IsNonBlankStr(v) == v.t = "str" /\ Strip(v.s) # <<>>

\* lines 92-103: the text made of d["original_row"]
OriginalRowText(row) ==
    IF row.t = "dict"
    THEN LET NotNone(p) == p.v.t # "None"
             kept == SelectSeq(row.m, NotNone)
         IN  Join(S_bar, [i \in 1..Len(kept) |-> kept[i].k \o <<"=">> \o StrOf(kept[i].v)])
    ELSE Join(S_bar, [i \in 1..Len(row.e) |-> StrOf(row.e[i])])

\* _extract_text_from_dict(d), d the pair sequence of the record
_extract_text_from_dict(d) ==
    LET Found(k) == IsNonBlankStr(DictGet(d, k, PyNone))
        found    == SelectSeq(TextKeys, Found)
        HasText(p) == IsNonBlankStr(p.v)
        strings  == SelectSeq(d, HasText)
        pieces   == [i \in 1..Len(strings) |-> Strip(strings[i].v.s)]
    IN  IF found # <<>> THEN Strip(Lookup(d, found[1]).s)
        ELSE IF HasKey(d, K_original_row) /\ Lookup(d, K_original_row).t \in {"dict", "list"}
             THEN OriginalRowText(Lookup(d, K_original_row))
        ELSE IF pieces # <<>> THEN Join(S_bar, pieces)
        ELSE Repr(PyDict(d))

RECURSIVE MergeInto(_, _)
\* {**a, **b}
MergeInto(a, b) == IF b = <<>> THEN a ELSE MergeInto(DictPut(a, b[1].k, b[1].v), Tail(b))

\* lines 128-130 and 149-150: the default metadata overridden by the meta of
\* the record, when that is a dict
MergedMeta(d, default_meta) ==
    LET meta == DictGet(d, K_meta, PyDict(<<>>))
    IN  MergeInto(default_meta, IF meta.t = "dict" THEN meta.m ELSE <<>>)

NormalizeStrCounted(raw, file_id, default_meta) ==
    LET chunks == _chunk_text(raw.s, MAX_WORDS_PER_CHUNK)
    IN  [idx \in 1..Len(chunks) |->
            [id   |-> PyStr(file_id \o S_txt \o IntToChars(idx - 1 + Len(ret))),
             text |-> chunks[idx],
             meta |-> default_meta]]

\* lines 117-121: a string
NormalizeStr(raw, file_id, default_meta) ==
    LET chunks == _chunk_text(raw.s, MAX_WORDS_PER_CHUNK)
    IN  [idx \in 1..Len(chunks) |->
            [id   |-> PyStr(file_id \o S_txt \o IntToChars(idx - 1)),
             text |-> chunks[idx],
             meta |-> default_meta]]

\* lines 124-132 and 145-154: a record; generated is the id prefix of the
\* chunks of a record that has no id of its own
NormalizeDict(d, generated, default_meta) ==
    LET chunks == _chunk_text(_extract_text_from_dict(d), MAX_WORDS_PER_CHUNK)
    IN  [idx \in 1..Len(chunks) |->
            [id   |-> DictGet(d, K_id, PyStr(generated \o IntToChars(idx - 1))),
             text |-> chunks[idx],
             meta |-> MergedMeta(d, default_meta)]]

\* lines 136-160: element i (0-based) of a list
NormalizeItem(item, i, file_id, default_meta) ==
    LET prefix == file_id \o S_list \o IntToChars(i) \o S_colons
    IN  IF item.t = "dict" THEN NormalizeDict(item.m, prefix, default_meta)
        ELSE LET chunks == _chunk_text(StrOf(item), MAX_WORDS_PER_CHUNK)
             IN  [idx \in 1..Len(chunks) |->
                     [id   |-> PyStr(prefix \o IntToChars(idx - 1)),
                      text |-> chunks[idx],
                      meta |-> default_meta]]

\* _normalize_to_chunk_dicts(raw, file_id, default_meta)
_normalize_to_chunk_dicts(raw, file_id, default_meta) ==
    CASE raw.t = "str"  -> NormalizeStr(raw, file_id, default_meta)
      [] raw.t = "dict" -> NormalizeDict(raw.m, file_id \o S_item, default_meta)
      [] raw.t = "list" ->
            Concat([i \in 1..Len(raw.e) |->
                      NormalizeItem(raw.e[i], i - 1, file_id, default_meta)])
      [] OTHER          -> <<>>

\* ------------------------------------------------------------------------
\* Bounds and input sets of the retrieval calls
\* ------------------------------------------------------------------------
\* the largest top_k of a call
MaxTopK == 3

\* the largest number of chunks a collection holds
MaxHits == 2

\* the longest list given as file_ids
MaxFilterLen == 2

\* the id of the i-th chunk of a collection
ChunkId(i) == <<"c", Digits[i + 1]>>

\* the text of the i-th chunk of a collection
ChunkDoc(i) == <<"d", "o", "c", Digits[i + 1]>>

\* distances the index reports for a hit: 0, 3 (above 2) or none at all
Distances == {0, 3, NoneDistance}

SeqsUpTo(S, n) == UNION {[1..k -> S] : k \in 0..n}

\* index_chunks, line 186: every chunk carries the default metadata
DefaultMeta(collection_name) == <<[k |-> K_collection, v |-> PyStr(collection_name)]>>

\* what collection c returns for the query when its chunks have the distances
\* ds, in the order the index reports them
HitsOf(c, ds) ==
    [i \in 1..Len(ds) |-> [id |-> ChunkId(i), document |-> ChunkDoc(i),
                           metadata |-> DefaultMeta(c), distance |-> ds[i]]]

\* the states of the index: any subset of the collections exists, each with
\* up to MaxHits chunks at any distances
ChromaStates ==
    UNION {{[c \in S |-> HitsOf(c, ds[c])] : ds \in [S -> SeqsUpTo(Distances, MaxHits)]}
           : S \in SUBSET Collections}

\* the states of the index in which coll.query raises for any of the
\* collections
ChromaStatesWithFailures ==
    UNION {{[c \in DOMAIN db |-> IF c \in F THEN QueryRaises ELSE db[c]] :
              F \in SUBSET DOMAIN db} : db \in ChromaStates}

\* file_ids of a request: None, or a list of names (possibly empty, possibly
\* naming a collection twice or naming a collection that does not exist)
Filters == {PyNone} \cup {PyList(f) : f \in SeqsUpTo(Collections \cup {Coll_Z}, MaxFilterLen)}

TopKs == 1..MaxTopK

\* ------------------------------------------------------------------------
\* Calls of retrieve_top_k
\* ------------------------------------------------------------------------
InitRetrieve ==
    /\ chroma \in ChromaStatesWithFailures
    /\ gemini_configured = FALSE
    /\ prompt = <<>>
    /\ op = "init"
    /\ args = <<>>
    /\ ret = <<>>
    /\ IdleStore

\* retrieve_top_k(query, top_k, file_ids) called on the index.  A call only
\* reads the index, so a call made after another call reaches the state the
\* same call reaches from the initial state; calls are taken from there.
RetrieveTopK ==
    \E top_k \in TopKs, file_ids \in Filters :
        /\ op = "init"
        /\ op' = "retrieve_top_k"
        /\ args' = [top_k |-> top_k, file_ids |-> file_ids]
        /\ ret' = retrieve_top_k(chroma, top_k, file_ids)
        /\ UNCHANGED <<chroma, gemini_configured, prompt>>
        /\ UNCHANGED storeVars

NextRetrieve == RetrieveTopK

SpecRetrieve == InitRetrieve /\ [][NextRetrieve]_vars

\* ------------------------------------------------------------------------
\* The answering path: chat requests and direct prompt construction
\* ------------------------------------------------------------------------
\* n times the character c
Rep(c, n) == [i \in 1..n |-> c]

\* the metadata parse_pdf gives a paragraph chunk (ingestion.py:158-163),
\* merged over the default metadata
PdfMeta(c, file_name, page, paragraph_index) ==
    <<[k |-> K_collection,      v |-> PyStr(c)],
      [k |-> K_file_name,       v |-> PyStr(file_name)],
      [k |-> K_file_id,         v |-> PyStr(c)],
      [k |-> K_page,            v |-> PyInt(page)],
      [k |-> K_paragraph_index, v |-> PyInt(paragraph_index)]>>

\* no collection exists
EmptyIndex == <<>>

\* A holds a text of exactly SNIPPET_CHARS characters at distance 0 and one a
\* character longer at distance 3; B holds a PDF paragraph without distance
MixedIndex ==
    (Coll_A :> <<[id |-> ChunkId(0), document |-> Rep("a", SNIPPET_CHARS),
                  metadata |-> DefaultMeta(Coll_A), distance |-> 0],
                 [id |-> ChunkId(1), document |-> Rep("b", SNIPPET_CHARS + 1),
                  metadata |-> DefaultMeta(Coll_A), distance |-> 3]>>) @@
    (Coll_B :> <<[id |-> ChunkId(0), document |-> ChunkDoc(0),
                  metadata |-> PdfMeta(Coll_B, S_B_pdf, 0, 0), distance |-> NoneDistance]>>)

\* A holds two texts whose SOURCE lines are 2000 characters each
LongIndex ==
    (Coll_A :> <<[id |-> ChunkId(0), document |-> Rep("a", 1986),
                  metadata |-> DefaultMeta(Coll_A), distance |-> 0],
                 [id |-> ChunkId(1), document |-> Rep("b", 1986),
                  metadata |-> DefaultMeta(Coll_A), distance |-> 1]>>)

\* A holds a short text, a text whose SOURCE line is 434 characters, and a
\* short text
UnevenIndex ==
    (Coll_A :> <<[id |-> ChunkId(0), document |-> <<"x">>,
                  metadata |-> DefaultMeta(Coll_A), distance |-> 0],
                 [id |-> ChunkId(1), document |-> Rep("b", 420),
                  metadata |-> DefaultMeta(Coll_A), distance |-> 1],
                 [id |-> ChunkId(2), document |-> <<"y">>,
                  metadata |-> DefaultMeta(Coll_A), distance |-> 2]>>)

AnswerIndexes == {EmptyIndex, MixedIndex, LongIndex, UnevenIndex}

\* the texts the generative backend returns
ResponseTexts ==
    {T_valid, T_fenced, T_mixed, T_unterminated, T_no_answer_key, T_array, T_number,
     T_empty_object, T_null, T_string, T_garbage, T_empty, T_citation_without_ids,
     T_answer_not_string, T_no_citations_key, T_citations_not_array, T_extra_brace,
     T_empty_answer, T_full_citation}

\* every behaviour of one call of the generative backend
GeminiOutcomes == {GeminiRaises} \cup {GeminiReturns(t) : t \in ResponseTexts}

\* the character budgets a deployment configures
Budgets == {100, 429, GEMINI_MAX_CONTEXT_CHARS}

Init ==
    /\ chroma \in AnswerIndexes
    /\ gemini_configured \in BOOLEAN
    /\ prompt = <<>>
    /\ op = "init"
    /\ args = <<>>
    /\ ret = <<>>
    /\ IdleStore

\* POST /chat: the handler runs answer_query_structured, which builds the
\* prompt with the default budget, and converts the result.  Requests only
\* read the index, so they are taken from the initial state.
Chat ==
    \E top_k \in TopKs, file_ids \in Filters, outcome \in GeminiOutcomes :
        LET result == answer_query_structured(chroma, gemini_configured,
                                              IF top_k # 0 THEN top_k ELSE DEFAULT_TOP_K,
                                              file_ids, outcome)
        IN  /\ op = "init"
            /\ op' = "chat"
            /\ args' = [top_k |-> top_k, file_ids |-> file_ids, outcome |-> outcome]
            /\ prompt' = _build_structured_prompt(result.sources, GEMINI_MAX_CONTEXT_CHARS)
            /\ ret' = [result |-> result, response |-> chat(result)]
            /\ UNCHANGED <<chroma, gemini_configured>>
            /\ UNCHANGED storeVars

\* _build_structured_prompt(query, retrieved, max_chars) called with a
\* configured budget on the results of a retrieval
BuildStructuredPrompt ==
    \E top_k \in TopKs, file_ids \in Filters, max_chars \in Budgets :
        LET retrieved == retrieve_top_k(chroma, top_k, file_ids)
        IN  /\ op = "init"
            /\ op' = "_build_structured_prompt"
            /\ args' = [retrieved |-> retrieved, max_chars |-> max_chars]
            /\ prompt' = _build_structured_prompt(retrieved, max_chars)
            /\ ret' = prompt'
            /\ UNCHANGED <<chroma, gemini_configured>>
            /\ UNCHANGED storeVars

Next == Chat \/ BuildStructuredPrompt

Spec == Init /\ [][Next]_vars

\* ------------------------------------------------------------------------
\* The fallback synthesizer on result lists of every length
\* ------------------------------------------------------------------------
\* the longest list of retrieval results given to the synthesizer
MaxResults == 7

\* the i-th result of a list: a text chunk of A under the default metadata,
\* or a PDF paragraph of B
ResultOf(kind, i) ==
    IF kind = "text"
    THEN [id |-> ChunkId(i), document |-> ChunkDoc(i), metadata |-> DefaultMeta(Coll_A),
          distance |-> 0, collection |-> Coll_A]
    ELSE [id |-> ChunkId(i), document |-> ChunkDoc(i),
          metadata |-> PdfMeta(Coll_B, S_B_pdf, i, 0), distance |-> 0,
          collection |-> Coll_B]

\* the deduplicated result lists of up to MaxResults results
RetrievedLists ==
    UNION {{[i \in 1..n |-> ResultOf(kinds[i], i)] : kinds \in [1..n -> {"text", "pdf"}]} :
             n \in 0..MaxResults}

InitFallback ==
    /\ chroma = EmptyIndex
    /\ gemini_configured = FALSE
    /\ prompt = <<>>
    /\ op = "init"
    /\ args \in {[retrieved |-> retrieved] : retrieved \in RetrievedLists}
    /\ ret = <<>>
    /\ IdleStore

\* answer_query_structured, lines 360-396, when no structured answer came
\* from the backend
SynthesizeFallback ==
    /\ op = "init"
    /\ op' = "fallback"
    /\ ret' = FallbackAnswer(args.retrieved)
    /\ UNCHANGED <<chroma, gemini_configured, prompt, args>>
    /\ UNCHANGED storeVars

NextFallback == SynthesizeFallback

SpecFallback == InitFallback /\ [][NextFallback]_vars

\* ------------------------------------------------------------------------
\* Conversation history: services/history.py and routers/history.py
\* ------------------------------------------------------------------------
\* the most turns a conversation is given
MaxTurns == 2

\* the ids uuid4 gives to new conversations
ConversationIds == {"u1", "u2"}

\* conversation_id of a request: absent, the empty string, or an id, of a
\* stored conversation or not
RequestConversationIds ==
    {PyNone, PyStr(<<>>)} \cup {[t |-> "str", s |-> <<c>>] : c \in ConversationIds}

\* what the generative backend does in the requests of a conversation: it
\* fails, answers, or answers with a citation that Citation(...) rejects
HistoryOutcomes ==
    {GeminiRaises, GeminiReturns(T_valid), GeminiReturns(T_citation_without_ids)}

\* create_conversation, lines 27-38, with the id uuid4 gave
create_conversation(store, id) == (id :> <<>>) @@ store

\* add_turn(conversation_id, query, response), lines 40-62: the turn is
\* appended to the stored conversation, or to a new one of that id when
\* get_conversation finds none; a turn is kept as its response's
\* conversation_id
add_turn(store, id, response) ==
    LET turns == IF id \in DOMAIN store THEN store[id] ELSE <<>>
    IN  (id :> Append(turns, response.conversation_id)) @@ store

\* delete_conversation, lines 100-110
delete_conversation(store, id) == [c \in (DOMAIN store) \ {id} |-> store[c]]

\* chat_with_history, lines 113-119: the id under which the turn is stored
\* and the conversation_id of the response, for the request's id and the id
\* uuid4 would give; the response's field is assigned only in the branch
\* that creates the conversation
HistoryIds(conversation_id, fresh) ==
    IF ~Truthy(conversation_id)
    THEN [stored |-> fresh, response |-> PyStr(<<fresh>>)]
    ELSE [stored |-> conversation_id.s[1], response |-> PyNone]

InitHistory ==
    /\ chroma \in {EmptyIndex, MixedIndex}
    /\ gemini_configured \in BOOLEAN
    /\ prompt = <<>>
    /\ op = "init"
    /\ args = <<>>
    /\ ret = <<>>
    /\ IdleStore

\* POST /conversations, lines 23-36
CreateConversation ==
    \E fresh \in ConversationIds \ DOMAIN conversations :
        /\ conversations' = create_conversation(conversations, fresh)
        /\ op' = "create_conversation"
        /\ args' = <<>>
        /\ ret' = [status |-> 200, conversation_id |-> PyStr(<<fresh>>)]
        /\ UNCHANGED <<chroma, gemini_configured, prompt, uploads, task, deletion,
                       gemini_calls>>

\* DELETE /conversations/{conversation_id}, lines 62-74
DeleteConversation ==
    \E id \in ConversationIds :
        /\ conversations' = delete_conversation(conversations, id)
        /\ op' = "delete_conversation"
        /\ args' = [conversation_id |-> PyStr(<<id>>)]
        /\ ret' = [status |-> IF id \in DOMAIN conversations THEN 200 ELSE 404]
        /\ UNCHANGED <<chroma, gemini_configured, prompt, uploads, task, deletion,
                       gemini_calls>>

\* POST /chat-with-history, lines 76-125: the answer is converted as in chat;
\* an exception of the conversion is answered with status 500 before the
\* history is touched; otherwise the conversation is created when the
\* request names none, the turn is added and the response returned
ChatWithHistory ==
    \E conversation_id \in RequestConversationIds, outcome \in HistoryOutcomes,
       fresh \in ConversationIds :
        LET result   == answer_query_structured(chroma, gemini_configured, DEFAULT_TOP_K,
                                                PyNone, outcome)
            ids      == HistoryIds(conversation_id, fresh)
            response == chat(result) @@ [conversation_id |-> ids.response]
            created  == IF ~Truthy(conversation_id)
                        THEN create_conversation(conversations, fresh)
                        ELSE conversations
        IN  /\ ~Truthy(conversation_id) => fresh \notin DOMAIN conversations
            /\ Truthy(conversation_id) => fresh = conversation_id.s[1]
            /\ ids.stored \in DOMAIN conversations =>
                   Len(conversations[ids.stored]) < MaxTurns
            /\ op' = "chat_with_history"
            /\ args' = [conversation_id |-> conversation_id, outcome |-> outcome]
            /\ IF response.status = 200
               THEN /\ conversations' = add_turn(created, ids.stored, response)
                    /\ ret' = response
               ELSE /\ ret' = [status |-> 500]
                    /\ UNCHANGED conversations
            /\ UNCHANGED <<chroma, gemini_configured, prompt, uploads, task, deletion,
                           gemini_calls>>

NextHistory == CreateConversation \/ DeleteConversation \/ ChatWithHistory

SpecHistory == InitHistory /\ [][NextHistory]_vars

\* ------------------------------------------------------------------------
\* Calls of _normalize_to_chunk_dicts
\* ------------------------------------------------------------------------
\* the longest list given as parser output
MaxListLen == 2

\* n one-letter words separated by single blanks
Words(n) == [i \in 1..(2 * n - 1) |-> IF i % 2 = 1 THEN "w" ELSE " "]

\* a key with each of the values vs, or no such key
Optional(k, vs) == {<<>>} \cup {<<[k |-> k, v |-> v]>> : v \in vs}

\* parser output that is one string
TextInputs ==
    {PyStr(<<>>), PyStr(S_blank), PyStr(S_hello), PyStr(Words(2)),
     PyStr(Words(MAX_WORDS_PER_CHUNK)), PyStr(Words(MAX_WORDS_PER_CHUNK + 1))}

\* parser output that is one record: any combination of a text, an id of its
\* own, an original_row, a meta and a field that is not a string
RecordInputs ==
    {PyDict(t \o i \o o \o m \o n) :
        t \in Optional(K_text, {PyStr(<<>>), PyStr(S_hello), PyNone,
                                PyStr(Words(MAX_WORDS_PER_CHUNK + 1))}),
        i \in Optional(K_id, {PyStr(<<"x">>)}),
        o \in Optional(K_original_row,
                       {PyDict(<<>>), PyDict(<<[k |-> <<"a">>, v |-> PyNone]>>),
                        PyDict(<<[k |-> <<"a">>, v |-> PyInt(1)]>>),
                        PyList(<<>>), PyList(<<PyStr(<<"v">>)>>)}),
        m \in Optional(K_meta, {PyDict(<<[k |-> K_file_name, v |-> PyStr(S_B_pdf)]>>)}),
        n \in Optional(<<"n">>, {PyInt(5)})}

\* the elements of parser output that is a list
ListElements ==
    {PyStr(<<>>), PyStr(S_hello), PyStr(Words(MAX_WORDS_PER_CHUNK + 1)), PyInt(7),
     PyDict(<<[k |-> K_text, v |-> PyStr(S_hello)]>>),
     PyDict(<<[k |-> K_id, v |-> PyStr(<<"x">>)], [k |-> K_text, v |-> PyStr(S_hello)]>>),
     PyDict(<<[k |-> K_original_row, v |-> PyDict(<<>>)]>>)}

ListInputs == {PyList(e) : e \in SeqsUpTo(ListElements, MaxListLen)}

NormalizeInputs == TextInputs \cup RecordInputs \cup ListInputs

InitNormalize ==
    /\ chroma = EmptyIndex
    /\ gemini_configured = FALSE
    /\ prompt = <<>>
    /\ op = "init"
    /\ args = <<>>
    /\ ret = <<>>
    /\ IdleStore

\* _normalize_to_chunk_dicts(raw, file_id, default_meta), called without
\* default metadata or, as index_chunks does, with the collection name
NormalizeToChunkDicts ==
    \E raw \in NormalizeInputs, file_id \in Collections :
      \E default_meta \in {<<>>, DefaultMeta(file_id)} :
        /\ op = "init"
        /\ op' = "_normalize_to_chunk_dicts"
        /\ args' = [raw |-> raw, file_id |-> file_id, default_meta |-> default_meta]
        /\ ret' = _normalize_to_chunk_dicts(raw, file_id, default_meta)
        /\ UNCHANGED <<chroma, gemini_configured, prompt>>
        /\ UNCHANGED storeVars

\* the same call made a second time, after the first has returned: the
\* process state the second call runs in is the one the first call left
NormalizeAgain ==
    /\ op = "_normalize_to_chunk_dicts"
    /\ op' = "normalize_again"
    /\ ret' = [first  |-> ret,
               second |-> _normalize_to_chunk_dicts(args.raw, args.file_id,
                                                    args.default_meta)]
    /\ UNCHANGED <<chroma, gemini_configured, prompt, args>>
    /\ UNCHANGED storeVars

NextNormalize == NormalizeToChunkDicts \/ NormalizeAgain

SpecNormalize == InitNormalize /\ [][NextNormalize]_vars

\* ------------------------------------------------------------------------
\* Ingestion and indexing of an uploaded file (services/ingestion.py,
\* services/indexer.py).  A stored file is its suffix, as uploaded, and its
\* rows: the cells of a one-column table named c, the texts of the pages of
\* a PDF, or the lines of a text.
\* ------------------------------------------------------------------------
S_sheet1_open == <<"[", "S", "h", "e", "e", "t", "1", "]", " ">>
S_col == <<"c", ":", " ">>
S_pdf_page == <<":", ":", "p", "d", "f", ":", ":", "p", "a", "g", "e", "=">>
S_para == <<":", ":", "p", "a", "r", "a", "=">>
X_csv == <<".", "c", "s", "v">>
X_txt == <<".", "t", "x", "t">>
X_xls == <<".", "x", "l", "s">>
X_xlsx == <<".", "x", "l", "s", "x">>
X_xlsm == <<".", "x", "l", "s", "m">>
X_xlsb == <<".", "x", "l", "s", "b">>
X_pdf == <<".", "p", "d", "f">>

\* str.lower() of one character
LowerChar(c) ==
    LET upper == <<"A", "B", "C", "D", "E", "F", "G", "H", "I", "J", "K", "L", "M",
                   "N", "O", "P", "Q", "R", "S", "T", "U", "V", "W", "X", "Y", "Z">>
        lower == <<"a", "b", "c", "d", "e", "f", "g", "h", "i", "j", "k", "l", "m",
                   "n", "o", "p", "q", "r", "s", "t", "u", "v", "w", "x", "y", "z">>
    IN  IF \E i \in 1..26 : upper[i] = c
        THEN lower[CHOOSE i \in 1..26 : upper[i] = c]
        ELSE c

\* path.suffix.lower()
Lower(s) == [i \in 1..Len(s) |-> LowerChar(s[i])]

\* the result of a call that raised
Raised == [ok |-> FALSE]

\* the result of a call that returned v
Returned(v) == [ok |-> TRUE, value |-> v]

\* parse_csv_or_excel(path, file_id) as the module defines it last
\* (ingestion.py:169-188): one string per row; every suffix other than
\* .csv, .xls and .xlsx, compared as written, raises ValueError
parse_csv_or_excel(file) ==
    IF file.suffix \in {X_csv, X_xls, X_xlsx}
    THEN Returned(PyList([i \in 1..Len(file.rows) |->
             PyStr(S_sheet1_open \o
                   (IF file.rows[i] # <<>> THEN S_col \o file.rows[i] ELSE <<>>))]))
    ELSE Raised

\* parse_pdf(path, file_id) for pages without tables (ingestion.py:152-164):
\* the paragraphs of every page that has text
parse_pdf(file, file_id) ==
    Returned(PyList(Concat([p \in 1..Len(file.rows) |->
        IF Strip(file.rows[p]) = <<>> THEN <<>>
        ELSE LET cs == _chunk_text(file.rows[p], 200)
             IN  [c \in 1..Len(cs) |->
                    PyDict(<<[k |-> K_id,
                              v |-> PyStr(file_id \o S_pdf_page \o IntToChars(p - 1)
                                          \o S_para \o IntToChars(c - 1))],
                             [k |-> K_text, v |-> PyStr(cs[c])],
                             [k |-> K_meta,
                              v |-> PyDict(<<[k |-> K_file_name,
                                              v |-> PyStr(file_id \o file.suffix)],
                                             [k |-> K_file_id, v |-> PyStr(file_id)],
                                             [k |-> K_page, v |-> PyInt(p - 1)],
                                             [k |-> K_paragraph_index,
                                              v |-> PyInt(c - 1)]>>)]>>)]])))

\* process_and_index_file, lines 253-270: the parser output for the suffix,
\* or the exception that leaves the try block
ParseFile(file, file_id) ==
    LET suffix == Lower(file.suffix)
    IN  IF suffix \in {X_csv, X_txt, X_xls, X_xlsx, X_xlsm, X_xlsb}
        THEN parse_csv_or_excel(file)
        ELSE IF suffix = X_pdf THEN parse_pdf(file, file_id)
        ELSE IF parse_csv_or_excel(file).ok THEN parse_csv_or_excel(file)
        ELSE Returned(PyStr(Join(<<"\n">>, file.rows)))

\* index_chunks, lines 181-189: the normalised chunks, empty when there is
\* nothing to index
ChunksToIndex(raw_chunks, collection_name) ==
    IF ~Truthy(raw_chunks) THEN <<>>
    ELSE _normalize_to_chunk_dicts(raw_chunks, collection_name,
                                   DefaultMeta(collection_name))

\* the entries of a write made batch by batch that stops after the first chunk
EntriesOfFirstBatch(chunks) ==
    [i \in 1..Min(1, Len(chunks)) |-> [id       |-> chunks[i].id.s,
                                       document |-> chunks[i].text,
                                       metadata |-> chunks[i].meta,
                                       distance |-> i - 1]]

\* the entries of a collection for chunks; the distance of an entry to the
\* query of the requests is its position
EntriesOf(chunks) ==
    [i \in 1..Len(chunks) |-> [id       |-> chunks[i].id.s,
                               document |-> chunks[i].text,
                               metadata |-> chunks[i].meta,
                               distance |-> i - 1]]

CollAddAppend(existing, entries) == existing \o entries

\* coll.add(ids, documents, metadatas, embeddings), line 225: an entry whose
\* id the collection already holds is ignored
CollAdd(existing, entries) ==
    LET IsNew(e) == \A j \in 1..Len(existing) : existing[j].id # e.id
    IN  existing \o SelectSeq(entries, IsNew)

delete_file_from_index_Strict(db, file_id, deleted) ==
    IF file_id \notin DOMAIN db THEN [db |-> db, returned |-> FALSE]
    ELSE IF deleted
         THEN [db |-> [c \in (DOMAIN db) \ {file_id} |-> db[c]], returned |-> TRUE]
         ELSE [db |-> db, returned |-> TRUE]

\* delete_file_from_index(file_id), lines 280-310: get_collection raises for
\* a collection that does not exist, delete_collection raises when the
\* backend fails (deleted = FALSE); both exceptions are caught at line 304
\* and the call returns
delete_file_from_index(db, file_id, deleted) ==
    IF file_id \notin DOMAIN db THEN [db |-> db, returned |-> TRUE]
    ELSE IF deleted
         THEN [db |-> [c \in (DOMAIN db) \ {file_id} |-> db[c]], returned |-> TRUE]
         ELSE [db |-> db, returned |-> TRUE]

\* ------------------------------------------------------------------------
\* Upload, background indexing, deletion and queries of one document
\* (routers/files.py, services/indexer.py, storage.py).  The upload handler
\* gives the document the id Coll_A; Coll_B is a document indexed earlier.
\* ------------------------------------------------------------------------
\* the number of times process_and_index_file runs for the document
MaxRuns == 2

\* the suffixes of uploaded files: tabular, text, PDF, one written in capitals
\* and one the indexer does not know
Suffixes ==
    {X_csv, X_txt, X_xls, X_xlsx, X_xlsm, X_xlsb, X_pdf,
     <<".", "C", "S", "V">>, <<".", "m", "d">>}

\* the rows of uploaded files: none, a blank one, one, and two of which one
\* has two words
RowSets == {<<>>, <<S_blank>>, <<S_hello>>, <<S_hello, <<"v", " ", "w">>>>}

UploadedFiles == [suffix : Suffixes, rows : RowSets]

\* the index holds nothing, or the chunk of the other document
LifecycleIndexes == {EmptyIndex, (Coll_B :> HitsOf(Coll_B, <<0>>))}

\* process_and_index_file's parser output for every file (ParseFile), and
\* index_chunks' normalised chunks for every parser output (ChunksToIndex),
\* tabulated once as sets of pairs for the steps of the task
ParsedFiles == {<<file, ParseFile(file, Coll_A)>> : file \in UploadedFiles}

ParsedOf(file) == (CHOOSE p \in ParsedFiles : p[1] = file)[2]

NormalizedChunks ==
    {<<p[2].value, ChunksToIndex(p[2].value, Coll_A)>> : p \in {q \in ParsedFiles : q[2].ok}}

NormalizedOf(raw_chunks) == (CHOOSE p \in NormalizedChunks : p[1] = raw_chunks)[2]

InitLifecycle ==
    /\ chroma \in LifecycleIndexes
    /\ gemini_configured = FALSE
    /\ prompt = <<>>
    /\ op = "init"
    /\ args = <<>>
    /\ ret = <<>>
    /\ IdleStore

\* the end of a run of process_and_index_file
Finished(result) == [task EXCEPT !.pc = "finished", !.result = result]

\* POST /upload (files.py:14-30): save_upload stores the file and its
\* metadata, the indexing task is scheduled, the response acknowledges
UploadFiles ==
    \E file \in UploadedFiles :
        /\ task.pc = "none"
        /\ uploads' = (Coll_A :> file)
        /\ task' = [IdleTask EXCEPT !.pc = "scheduled", !.run = 1]
        /\ UNCHANGED <<chroma, gemini_configured, prompt, op, args, ret,
                       deletion, gemini_calls, conversations>>

\* the step without the test of line 249
TaskLocateUnchecked ==
    /\ task.pc = "scheduled"
    /\ task' = [task EXCEPT !.pc = "located"]
    /\ UNCHANGED <<chroma, gemini_configured, prompt, op, args, ret,
                   uploads, deletion, gemini_calls, conversations>>

\* process_and_index_file, lines 248-251: get_file_path
TaskLocate ==
    /\ task.pc = "scheduled"
    /\ task' = IF Coll_A \in DOMAIN uploads THEN [task EXCEPT !.pc = "located"]
               ELSE Finished("file not found")
    /\ UNCHANGED <<chroma, gemini_configured, prompt, op, args, ret,
                   uploads, deletion, gemini_calls, conversations>>

\* process_and_index_file, lines 253-270 and 276: the parser reads the file;
\* a file deleted in the meantime and a parser that raises end the run
TaskParse ==
    /\ task.pc = "located"
    /\ task' = IF Coll_A \notin DOMAIN uploads THEN Finished("parse failed")
               ELSE LET r == ParsedOf(uploads[Coll_A])
                    IN  IF r.ok THEN [task EXCEPT !.pc = "parsed", !.raw = r.value]
                        ELSE Finished("parse failed")
    /\ UNCHANGED <<chroma, gemini_configured, prompt, op, args, ret,
                   uploads, deletion, gemini_calls, conversations>>

\* the step without the returns of lines 181-183 and 187-189
TaskGetCollectionAlways ==
    /\ task.pc = "parsed"
    /\ IF Coll_A \in DOMAIN chroma
       THEN task' = [task EXCEPT !.pc = "collection"] /\ UNCHANGED chroma
       ELSE \/ /\ chroma' = chroma @@ (Coll_A :> <<>>)
               /\ task' = [task EXCEPT !.pc = "collection"]
            \/ /\ task' = Finished("create failed")
               /\ UNCHANGED chroma
    /\ UNCHANGED <<gemini_configured, prompt, op, args, ret,
                   uploads, deletion, gemini_calls, conversations>>

\* index_chunks, lines 181-201: nothing to index ends the run; otherwise
\* get_collection, or create_collection, which the backend may fail
TaskGetCollection ==
    /\ task.pc = "parsed"
    /\ IF NormalizedOf(task.raw) = <<>>
       THEN task' = Finished("nothing to index") /\ UNCHANGED chroma
       ELSE IF Coll_A \in DOMAIN chroma
       THEN task' = [task EXCEPT !.pc = "collection"] /\ UNCHANGED chroma
       ELSE \/ /\ chroma' = chroma @@ (Coll_A :> <<>>)
               /\ task' = [task EXCEPT !.pc = "collection"]
            \/ /\ task' = Finished("create failed")
               /\ UNCHANGED chroma
    /\ UNCHANGED <<gemini_configured, prompt, op, args, ret,
                   uploads, deletion, gemini_calls, conversations>>

\* index_chunks, lines 208-216: the embedding backend returns or raises
TaskEmbed ==
    /\ task.pc = "collection"
    /\ \/ task' = [task EXCEPT !.pc = "embedded"]
       \/ task' = Finished("embed failed")
    /\ UNCHANGED <<chroma, gemini_configured, prompt, op, args, ret,
                   uploads, deletion, gemini_calls, conversations>>

\* index_chunks, lines 223-236: coll.add on the collection obtained before;
\* it raises when the collection has been deleted and when the backend fails
TaskAdd ==
    /\ task.pc = "embedded"
    /\ IF Coll_A \notin DOMAIN chroma
       THEN task' = Finished("add failed") /\ UNCHANGED chroma
       ELSE \/ /\ chroma' = [chroma EXCEPT ![Coll_A] =
                                CollAdd(@, EntriesOf(NormalizedOf(task.raw)))]
               /\ task' = Finished("indexed")
            \/ /\ task' = Finished("add failed")
               /\ UNCHANGED chroma
    /\ UNCHANGED <<gemini_configured, prompt, op, args, ret,
                   uploads, deletion, gemini_calls, conversations>>

\* process_and_index_file(file_id) called again after a run has ended
Reindex ==
    /\ task.pc = "finished"
    /\ task.run < MaxRuns
    /\ task' = [IdleTask EXCEPT !.pc = "scheduled", !.run = task.run + 1,
                                !.prev = task.result]
    /\ UNCHANGED <<chroma, gemini_configured, prompt, op, args, ret,
                   uploads, deletion, gemini_calls, conversations>>

\* DELETE /{file_id} (files.py:49-60): 404 for an unknown id, otherwise
\* delete_file removes the file and its metadata
DeleteStored ==
    /\ deletion.pc = "none"
    /\ IF Coll_A \in DOMAIN uploads
       THEN /\ uploads' = <<>>
            /\ deletion' = [deletion EXCEPT !.pc = "storage deleted"]
       ELSE /\ deletion' = [deletion EXCEPT !.pc = "finished", !.status = 404]
            /\ UNCHANGED uploads
    /\ UNCHANGED <<chroma, gemini_configured, prompt, op, args, ret,
                   task, gemini_calls, conversations>>

\* DELETE /{file_id} (files.py:62-69): delete_file_from_index, then the
\* success response; deleted tells whether the backend's delete_collection
\* succeeds
DeleteFromIndex ==
    \E deleted \in BOOLEAN :
        LET r == delete_file_from_index(chroma, Coll_A, deleted)
        IN  /\ deletion.pc = "storage deleted"
            /\ Coll_A \notin DOMAIN chroma => deleted
            /\ chroma' = r.db
            /\ deletion' = [pc |-> "finished", status |-> 200,
                            existed |-> Coll_A \in DOMAIN chroma,
                            deleted |-> deleted, returned |-> r.returned]
            /\ UNCHANGED <<gemini_configured, prompt, op, args, ret,
                           uploads, task, gemini_calls, conversations>>

\* the filters of the queries: none, or the uploaded document
LifecycleFilters == {PyNone, PyList(<<Coll_A>>)}

\* retrieve_top_k(query, top_k, file_ids) at any moment
Query ==
    \E top_k \in {1, DEFAULT_TOP_K}, file_ids \in LifecycleFilters :
        /\ op' = "retrieve_top_k"
        /\ args' = [top_k |-> top_k, file_ids |-> file_ids]
        /\ ret' = retrieve_top_k(chroma, top_k, file_ids)
        /\ UNCHANGED <<chroma, gemini_configured, prompt>>
        /\ UNCHANGED storeVars

\* the steps of the background task
TaskStep == TaskLocate \/ TaskParse \/ TaskGetCollection \/ TaskEmbed \/ TaskAdd

NextLifecycle ==
    UploadFiles \/ TaskStep \/ Reindex \/ DeleteStored \/ DeleteFromIndex \/ Query

SpecLifecycle == InitLifecycle /\ [][NextLifecycle]_vars

\* uploads, the background task and delete requests, without queries and
\* repeated runs
NextLifecycleFair == UploadFiles \/ TaskStep \/ DeleteStored \/ DeleteFromIndex

\* a scheduled background task runs to its end
SpecLifecycleFair == InitLifecycle /\ [][NextLifecycleFair]_vars /\ WF_vars(TaskStep)

\* ------------------------------------------------------------------------
\* answer_query_structured step by step, with backends that may never
\* respond.  The calls are made without timeout (retriever.py:72, 232), so
\* a call returns only when its backend responds.
\* ------------------------------------------------------------------------
\* the backends a request calls
Backends == {"index", "gemini"}

StepIndexes == {EmptyIndex, MixedIndex}

StepTopKs == {1, DEFAULT_TOP_K}

StepOutcomes == {GeminiRaises, GeminiReturns(T_valid), GeminiReturns(T_garbage)}

\* answer_query_structured's result for every request of the steps, tabulated
\* once as a set of pairs
StepAnswers ==
    {<<<<db, c, k, f, o>>, answer_query_structured(db, c, k, f, o)>> :
        db \in StepIndexes, c \in BOOLEAN, k \in StepTopKs, f \in LifecycleFilters,
        o \in StepOutcomes}

StepAnswerOf(db, c, k, f, o) == (CHOOSE p \in StepAnswers : p[1] = <<db, c, k, f, o>>)[2]

\* no request has been made
InitSteps ==
    /\ chroma \in StepIndexes
    /\ gemini_configured \in BOOLEAN
    /\ prompt = <<>>
    /\ op = "init"
    /\ args = <<>>
    /\ ret = <<>>
    /\ IdleStore

\* answer_query_structured is called (line 325); silent are the backends that
\* do not respond to this request
AnswerStart ==
    \E top_k \in StepTopKs, file_ids \in LifecycleFilters, silent \in SUBSET Backends :
        /\ op = "init"
        /\ op' = "retrieving"
        /\ args' = [top_k |-> top_k, file_ids |-> file_ids, silent |-> silent]
        /\ UNCHANGED <<chroma, gemini_configured, prompt, ret>>
        /\ UNCHANGED storeVars

\* retrieve_top_k returns (line 341): every coll.query has returned or raised
RetrievalReturns ==
    /\ op = "retrieving"
    /\ \/ "index" \notin args.silent
       \/ \A j \in 1..Len(TargetCollections(chroma, args.file_ids)) :
             TargetCollections(chroma, args.file_ids)[j] \notin DOMAIN chroma
    /\ op' = "retrieved"
    /\ UNCHANGED <<chroma, gemini_configured, prompt, args, ret>>
    /\ UNCHANGED storeVars

\* lines 348-350: with the key configured and the SDK present,
\* call_gemini_structured is entered and makes its generate_content call
\* (line 232)
GeminiInvoke ==
    /\ op = "retrieved"
    /\ gemini_configured
    /\ op' = "calling"
    /\ gemini_calls' = gemini_calls + 1
    /\ UNCHANGED <<chroma, gemini_configured, prompt, args, ret>>
    /\ UNCHANGED <<uploads, task, deletion, conversations>>

OnGeminiOutcomeRetry(outcome) == IF outcome.kind = "raise" THEN "retrieved" ELSE "answered"

\* lines 350-357 and 236-238: where the request goes on once generate_content
\* has returned or raised; the exception is re-raised by
\* call_gemini_structured and caught at line 354, and either way the synthesis
\* of lines 360-405 follows
OnGeminiOutcome(outcome) == "answered"

\* lines 347-405: without backend the call is skipped (line 352); otherwise
\* generate_content returns or raises; the answer is synthesized and the
\* function returns
AnswerReturns ==
    \E outcome \in StepOutcomes :
        /\ \/ op = "retrieved" /\ ~gemini_configured /\ outcome = GeminiRaises
           \/ op = "calling" /\ "gemini" \notin args.silent
        /\ op' = IF gemini_configured THEN OnGeminiOutcome(outcome) ELSE "answered"
        /\ ret' = IF op' = "answered"
                  THEN StepAnswerOf(chroma, gemini_configured, args.top_k, args.file_ids,
                                    outcome)
                  ELSE ret
        /\ UNCHANGED <<chroma, gemini_configured, prompt, args>>
        /\ UNCHANGED storeVars

NextSteps == AnswerStart \/ RetrievalReturns \/ GeminiInvoke \/ AnswerReturns

\* a request keeps running while it has a step to take
SpecSteps == InitSteps /\ [][NextSteps]_vars /\ WF_vars(NextSteps)

\* ------------------------------------------------------------------------
\* Properties of retrieve_top_k
\* ------------------------------------------------------------------------
IsSortedByDistance(rs) ==
    \A i \in 1..Len(rs) : \A j \in 1..Len(rs) : i < j => rs[i].distance <= rs[j].distance

KeyOf(r) == <<r.collection, r.id>>

NoDuplicateKeys(rs) ==
    \A i \in 1..Len(rs) : \A j \in 1..Len(rs) : i # j => KeyOf(rs[i]) # KeyOf(rs[j])

\* C3: the list returned by retrieve_top_k is sorted by non-decreasing distance
\* and holds no two entries with the same (collection, id) pair, whatever the
\* distances (missing ones included) and the filter (a partition named twice
\* included).
C3_SortedNoDuplicates ==
    op = "retrieve_top_k" => IsSortedByDistance(ret) /\ NoDuplicateKeys(ret)

\* a call whose filter names collection A twice, whose result has two entries
\* and ends with a hit that had no distance
C3_Witness ==
    /\ op = "retrieve_top_k"
    /\ args.file_ids = PyList(<<Coll_A, Coll_A>>)
    /\ Len(ret) = 2
    /\ ret[1].distance < Inf
    /\ ret[2].distance = Inf

\* the merged per-partition results of the call, before sorting
MergedOf(db, a) == AllResults(db, TargetCollections(db, a.file_ids), a.top_k)

KeysOf(rs) == {KeyOf(rs[i]) : i \in 1..Len(rs)}

\* the lowest distance with which key k occurs in rs
LowestDistance(rs, k) ==
    CHOOSE d \in {rs[i].distance : i \in {j \in 1..Len(rs) : KeyOf(rs[j]) = k}} :
        \A i \in 1..Len(rs) : KeyOf(rs[i]) = k => d <= rs[i].distance

\* C4: retrieve_top_k returns at most top_k results, and they are the top_k
\* lowest-distance distinct (collection, id) entries of the merged
\* per-partition results.
C4_TopKLowest ==
    op = "retrieve_top_k" =>
        LET merged == MergedOf(chroma, args)
        IN  /\ Len(ret) <= args.top_k
            /\ Len(ret) = Min(args.top_k, Cardinality(KeysOf(merged)))
            /\ \A i \in 1..Len(ret) :
                 /\ KeyOf(ret[i]) \in KeysOf(merged)
                 /\ ret[i].distance = LowestDistance(merged, KeyOf(ret[i]))
            /\ \A k \in KeysOf(merged) \ KeysOf(ret) :
                 \A i \in 1..Len(ret) : ret[i].distance <= LowestDistance(merged, k)

\* a call over both collections where more distinct entries were merged than
\* top_k allows, so the result is cut to exactly top_k
C4_Witness ==
    /\ op = "retrieve_top_k"
    /\ args.top_k = 2
    /\ Len(ret) = 2
    /\ Cardinality(KeysOf(MergedOf(chroma, args))) > 2
    /\ {ret[1].collection, ret[2].collection} = Collections

\* ------------------------------------------------------------------------
\* Properties of the answering path
\* ------------------------------------------------------------------------
\* v is an object with an answer that is a string and citations that are an array
IsStructuredAnswer(v) ==
    /\ v.t = "dict"
    /\ HasKey(v.m, K_answer) /\ Lookup(v.m, K_answer).t = "str"
    /\ HasKey(v.m, K_citations) /\ Lookup(v.m, K_citations).t = "list"

\* the generative backend was called by the request and returned a text
BackendAnswered == gemini_configured /\ args.outcome.kind = "text"

\* C1: whatever the generative backend does (exception or any response text,
\* also one that decodes to a non-object or to an object without an answer
\* key), the structured_answer returned by answer_query_structured has a
\* non-empty string in its answer field.
C1_AnswerNonEmpty ==
    op = "chat" =>
        LET sa == ret.result.structured_answer
        IN  /\ sa.t = "dict"
            /\ HasKey(sa.m, K_answer)
            /\ Lookup(sa.m, K_answer).t = "str"
            /\ Lookup(sa.m, K_answer).s # <<>>

\* C2: a backend response is the final structured_answer only if it decodes
\* to an object with an answer string and a citations array; otherwise the
\* structured_answer is the deterministic fallback built from the retrieval
\* results.
C2_ValidatedOrFallback ==
    op = "chat" =>
        LET sa == ret.result.structured_answer
        IN  \/ sa = FallbackAnswer(ret.result.sources)
            \/ /\ BackendAnswered
               /\ ParseStrategy(Strip(args.outcome.text)) # 5
               /\ sa = _parse_json_response(Strip(args.outcome.text))
               /\ IsStructuredAnswer(sa)

\* C5: for every request and every behaviour of the generative backend the
\* chat endpoint returns a ChatResponse, never an error status.
C5_ChatNeverFails == op = "chat" => ret.response.status = 200

\* C6: gemini_used is true only if the returned structured_answer is the
\* successfully parsed output of the backend; it is false when no parse
\* strategy decodes the output and when the answer is the fallback's.
C6_GeminiUsedMeansParsed ==
    op = "chat" /\ ret.result.gemini_used =>
        /\ BackendAnswered
        /\ ParseStrategy(Strip(args.outcome.text)) # 5
        /\ ret.result.structured_answer = _parse_json_response(Strip(args.outcome.text))

\* C7: every citation of the fallback synthesizer has a confidence within
\* [0, 1] (0..2 in halves) and a snippet of at most 200 characters, and a
\* result whose distance was missing (float("inf") after the merge) gets
\* confidence 0.5.
C7_CitationBounds ==
    op = "chat" /\ ~gemini_configured =>
        LET cits == Lookup(ret.result.structured_answer.m, K_citations).e
        IN  \A i \in 1..Len(cits) :
              /\ Lookup(cits[i].m, K_confidence).h \in 0..2
              /\ Len(Lookup(cits[i].m, K_snippet).s) <= 200
              /\ ret.result.sources[i].distance = Inf =>
                     Lookup(cits[i].m, K_confidence) = PyFloat2(1)

\* C8: the context section of the prompt is at most max_chars characters
\* long, for the configured budget of a direct call and for the default
\* budget of a chat request.
C8_ContextWithinBudget ==
    /\ op = "_build_structured_prompt" => Len(prompt) <= args.max_chars
    /\ op = "chat" => Len(prompt) <= GEMINI_MAX_CONTEXT_CHARS

\* ------------------------------------------------------------------------
\* Properties of the normaliser
\* ------------------------------------------------------------------------
IsNonEmptyRecord(v) == v.t = "dict" /\ v.m # <<>>

\* C9: every non-empty record given to _normalize_to_chunk_dicts, alone or as
\* an element of a sequence, yields at least one chunk with non-empty text:
\* a record alone gives a chunk with text, and a sequence of non-empty
\* records gives at least as many chunks as it has records, all with text.
C9_RecordYieldsChunk ==
    op = "_normalize_to_chunk_dicts" =>
        /\ IsNonEmptyRecord(args.raw) => \E i \in 1..Len(ret) : ret[i].text # <<>>
        /\ (args.raw.t = "list" /\ \A i \in 1..Len(args.raw.e) :
                                      IsNonEmptyRecord(args.raw.e[i])) =>
               /\ Len(ret) >= Len(args.raw.e)
               /\ \A i \in 1..Len(ret) : ret[i].text # <<>>

\* C10: the chunks returned by one call of _normalize_to_chunk_dicts have
\* pairwise distinct ids, also for records that carry their own id and whose
\* text is split into more than one word-chunk.
C10_DistinctIds ==
    op = "_normalize_to_chunk_dicts" =>
        \A i \in 1..Len(ret) : \A j \in 1..Len(ret) : i # j => ret[i].id # ret[j].id

\* ------------------------------------------------------------------------
\* Properties of repeated normalisation
\* ------------------------------------------------------------------------
\* the ids of a chunk sequence, in order
IdsOf(chunks) == [i \in 1..Len(chunks) |-> chunks[i].id]

\* a is the beginning of b
IsPrefixOf(a, b) == Len(a) <= Len(b) /\ SubSeq(b, 1, Len(a)) = a

C20_UndecodedGivesFallback ==
    (op = "chat" /\ BackendAnswered /\ ParseStrategy(Strip(args.outcome.text)) = 5) =>
        ret.result.structured_answer = FallbackAnswer(ret.result.sources)

\* ------------------------------------------------------------------------
\* Properties of failing partition queries
\* ------------------------------------------------------------------------
\* the index without the collections whose query raises
Healthy(db) == [c \in {x \in DOMAIN db : db[x] # QueryRaises} |-> db[c]]

\* the targets of the call whose query fails: not found, or coll.query raises
FailedTargets(db, a) ==
    {c \in {TargetCollections(db, a.file_ids)[j] :
                j \in 1..Len(TargetCollections(db, a.file_ids))} :
        c \notin DOMAIN db \/ db[c] = QueryRaises}

\* C13: when the query of one or more target partitions fails (partition not
\* found, or the backend raises), retrieve_top_k still returns, and what it
\* returns is the merged result of the target partitions whose query
\* succeeded.
C13_FailuresSwallowed ==
    (op = "retrieve_top_k" /\ FailedTargets(chroma, args) # {}) =>
        ret = retrieve_top_k(Healthy(chroma), args.top_k, args.file_ids)

\* a call in which the query of an existing collection raised and another
\* target gave results
C13_Witness ==
    /\ op = "retrieve_top_k"
    /\ \E c \in FailedTargets(chroma, args) : c \in DOMAIN chroma
    /\ ret # <<>>

\* ------------------------------------------------------------------------
\* Properties of upload, indexing and deletion
\* ------------------------------------------------------------------------
\* the upload is acknowledged and the first run of its indexing task has not
\* created the partition
StoredNotIndexed ==
    /\ Coll_A \in DOMAIN uploads
    /\ task.run = 1
    /\ task.pc \in {"scheduled", "located", "parsed"}
    /\ Coll_A \notin DOMAIN chroma

\* C12: between the acknowledgement of an upload and the completion of its
\* indexing task, while the partition of the document does not exist, a query
\* whose filter names the document returns the empty list.
C12_QueryBeforeIndexed ==
    [][(Query /\ args'.file_ids = PyList(<<Coll_A>>) /\ StoredNotIndexed)
          => ret' = <<>>]_vars

\* such a query has been made while the index held another document
C12_Witness ==
    /\ op = "retrieve_top_k"
    /\ args.file_ids = PyList(<<Coll_A>>)
    /\ StoredNotIndexed
    /\ Coll_B \in DOMAIN chroma
    /\ ret = <<>>

\* C14: in every interleaving of the indexing task of a document with a
\* delete request for it, once the delete request has succeeded (its
\* delete_collection did not fail) and the task has ended, no partition named
\* by the document exists.
C14_DeletedStaysDeleted ==
    (/\ deletion.pc = "finished"
     /\ deletion.status = 200
     /\ deletion.existed => deletion.deleted
     /\ task.pc = "finished")
        => Coll_A \notin DOMAIN chroma

\* the step in which delete_file_from_index is called and ends
DeleteFromIndexEnds == deletion.pc = "storage deleted" /\ deletion'.pc = "finished"

\* C15: whenever delete_file_from_index returns without raising, the partition
\* of the document does not exist in the index.
C15_ReturnMeansGone ==
    [][(DeleteFromIndexEnds /\ deletion'.returned) => Coll_A \notin DOMAIN chroma']_vars

\* C16: delete_file_from_index called when the partition of the document does
\* not exist returns without error and leaves the partitions and their
\* contents unchanged.
C16_DeleteMissingIsNoop ==
    [][(DeleteFromIndexEnds /\ Coll_A \notin DOMAIN chroma)
          => (deletion'.returned /\ chroma' = chroma)]_vars

\* the call has been made without the partition, beside another document's
C16_Witness ==
    /\ deletion.pc = "finished"
    /\ deletion.status = 200
    /\ ~deletion.existed
    /\ deletion.returned
    /\ Coll_B \in DOMAIN chroma
    /\ chroma[Coll_B] # <<>>

\* the ways a run ends because a backend failed
BackendFailures == {"create failed", "embed failed", "add failed"}

\* what one run without failures leaves in the partition of the document
SingleRunEntries(file) == EntriesOf(ChunksToIndex(ParseFile(file, Coll_A).value, Coll_A))

\* one run without backend failures indexes the file
SingleRunIndexes(file) == ParseFile(file, Coll_A).ok /\ SingleRunEntries(file) # <<>>

\* the ids and texts of the entries of a collection
IdsAndTexts(entries) ==
    [i \in 1..Len(entries) |-> <<entries[i].id, entries[i].document>>]

\* C17: a second (or later) run of the indexing of the same document on the
\* same parser output, also after a run that failed part-way, ends without
\* error and leaves in the partition exactly the ids and texts of one
\* successful run, without cleanup in between.
C17_ReindexIdempotent ==
    (/\ task.pc = "finished"
     /\ task.run >= 2
     /\ deletion.pc = "none"
     /\ task.result \notin BackendFailures
     /\ SingleRunIndexes(uploads[Coll_A]))
        => /\ task.result = "indexed"
           /\ IdsAndTexts(chroma[Coll_A]) = IdsAndTexts(SingleRunEntries(uploads[Coll_A]))

\* a second run has indexed two chunks after a first run that created the
\* collection and then failed
C17_Witness ==
    /\ task.pc = "finished"
    /\ task.run = 2
    /\ task.prev = "embed failed"
    /\ task.result = "indexed"
    /\ deletion.pc = "none"
    /\ Len(chroma[Coll_A]) >= 2

\* the file has a row or paragraph that is not blank
NonEmptyFile(file) ==
    \E i \in 1..Len(file.rows) :
        \E j \in 1..Len(file.rows[i]) : ~IsWhitespace(file.rows[i][j])

\* C18: the indexing task of an uploaded document of any of the kinds (tabular,
\* PDF, text, unrecognised suffix) that has a non-empty row or paragraph
\* eventually creates the partition of the document with at least one chunk,
\* unless a backend fails or the document is deleted.
C18_IndexedEventually ==
    (/\ task.pc = "scheduled"
     /\ task.run = 1
     /\ Coll_A \in DOMAIN uploads
     /\ NonEmptyFile(uploads[Coll_A]))
        ~> (\/ Coll_A \in DOMAIN chroma /\ chroma[Coll_A] # <<>>
            \/ task.result \in BackendFailures
            \/ deletion.pc # "none")

\* ------------------------------------------------------------------------
\* Properties of requests whose backends do not respond
\* ------------------------------------------------------------------------
\* C19: answer_query_structured eventually returns a response, also when the
\* generative backend or a partition query never responds.
C19_AnswerEventuallyReturns == (op = "retrieving") ~> (op = "answered")

\* ------------------------------------------------------------------------
\* Properties of the fallback synthesizer
\* ------------------------------------------------------------------------
\* the request's answer was synthesized without the backend: it is absent, or
\* its call raised
BackendAbsentOrFailed == ~gemini_configured \/ args.outcome.kind = "raise"

\* C21: when retrieval returns no results and the fallback synthesizer
\* produces the answer (backend absent or failed), the answer is the fixed
\* "No relevant data found to answer the question." message and the citations
\* are the empty list.
C21_EmptyRetrievalMessage ==
    (op = "chat" /\ BackendAbsentOrFailed /\ ret.result.sources = <<>>) =>
        LET sa == ret.result.structured_answer
        IN  /\ IsStructuredAnswer(sa)
            /\ Lookup(sa.m, K_answer) = PyStr(S_no_data)
            /\ Lookup(sa.m, K_citations) = PyList(<<>>)

\* a request whose backend call raised, on an index that holds documents none
\* of which the filter names
C21_Witness ==
    /\ op = "chat"
    /\ gemini_configured
    /\ args.outcome.kind = "raise"
    /\ chroma # EmptyIndex
    /\ ret.result.sources = <<>>
    /\ ~ret.result.gemini_used

\* ------------------------------------------------------------------------
\* Properties of the indexing run
\* ------------------------------------------------------------------------
\* C22: every chunk that the indexing run writes into the partition of the
\* document carries metadata with at least file_id and file_name, whatever
\* shape of output the parser handed over.
C22_MetadataHasFileIdAndName ==
    Coll_A \in DOMAIN chroma =>
        \A i \in 1..Len(chroma[Coll_A]) :
            /\ HasKey(chroma[Coll_A][i].metadata, K_file_id)
            /\ HasKey(chroma[Coll_A][i].metadata, K_file_name)

\* ------------------------------------------------------------------------
\* Properties of the partition filter
\* ------------------------------------------------------------------------
\* the partitions a filter names
NamedBy(file_ids) == {file_ids.e[j] : j \in 1..Len(file_ids.e)}

\* C23: whenever a partition filter is given to retrieve_top_k (any list, the
\* empty list included), the partitions queried are those the filter names
\* and every returned result's collection is named by the filter.
C23_FilterRestrictsResults ==
    (op = "retrieve_top_k" /\ args.file_ids.t = "list") =>
        /\ \A j \in 1..Len(TargetCollections(chroma, args.file_ids)) :
              TargetCollections(chroma, args.file_ids)[j] \in NamedBy(args.file_ids)
        /\ \A i \in 1..Len(ret) : ret[i].collection \in NamedBy(args.file_ids)

\* ------------------------------------------------------------------------
\* Properties of the prompt's context block
\* ------------------------------------------------------------------------
RECURSIVE LinesLength(_, _)
\* the cumulative length of the SOURCE lines of the first n results
LinesLength(retrieved, n) ==
    IF n = 0 THEN 0
    ELSE LinesLength(retrieved, n - 1) + Len(SourceLine(retrieved[n]))

\* the number of results from the front whose lines fit the budget together:
\* the position before the first result whose line would exceed it
FittingPrefix(retrieved, max_chars) ==
    CHOOSE n \in 0..Len(retrieved) :
        /\ \A m \in 1..n : LinesLength(retrieved, m) <= max_chars
        /\ n < Len(retrieved) => LinesLength(retrieved, n + 1) > max_chars

\* the context block made of the untruncated lines of the first n results
ContextOfPrefix(retrieved, n) ==
    IF n = 0 THEN S_no_context
    ELSE Join(<<"\n", "\n">>, [i \in 1..n |-> SourceLine(retrieved[i])])

\* the results and the budget of the prompt built last
PromptResults == IF op = "chat" THEN ret.result.sources ELSE args.retrieved

PromptBudget == IF op = "chat" THEN GEMINI_MAX_CONTEXT_CHARS ELSE args.max_chars

\* C24: the SOURCE lines of the context block are exactly a prefix of the
\* merged retrieval results in their order, each with its result's full
\* document text: appending stops at the first result whose line would push
\* the cumulative length over the budget, nothing is included after it and no
\* line is truncated.
C24_ContextIsFittingPrefix ==
    op \in {"chat", "_build_structured_prompt"} =>
        /\ prompt = ContextOfPrefix(PromptResults, FittingPrefix(PromptResults, PromptBudget))
        /\ \A i \in 1..FittingPrefix(PromptResults, PromptBudget) :
              EndsWith(SourceLine(PromptResults[i]), PromptResults[i].document)

\* a prompt that holds some of the results and stops before a result whose
\* line alone would have fitted the budget
C24_Witness ==
    /\ op = "_build_structured_prompt"
    /\ FittingPrefix(args.retrieved, args.max_chars) >= 1
    /\ FittingPrefix(args.retrieved, args.max_chars) < Len(args.retrieved)
    /\ \E i \in 1..Len(args.retrieved) :
          /\ i > FittingPrefix(args.retrieved, args.max_chars) + 1
          /\ Len(SourceLine(args.retrieved[i])) <= args.max_chars

\* the positions of text at which lit starts
OccurrencesOf(lit, text) == {i \in 1..Len(text) : MatchesAt(text, i, lit)}

\* C25: when the fallback synthesizer runs on n >= 1 results, the answer
\* holds one "According to <file_name>" summary for each of the first
\* min(3, n) results and no others, and the citations are built from exactly
\* the first min(5, n) results, both in retrieval order.
C25_FirstThreeAndFive ==
    (op = "fallback" /\ Len(args.retrieved) >= 1) =>
        LET n         == Len(args.retrieved)
            answer    == Lookup(ret.m, K_answer).s
            citations == Lookup(ret.m, K_citations).e
        IN  /\ answer = S_based_on \o
                  Join(<<"\n", "\n">>, [i \in 1..Min(3, n) |-> AnswerPart(args.retrieved[i])])
            /\ Cardinality(OccurrencesOf(S_according_to, answer)) = Min(3, n)
            /\ citations = [i \in 1..Min(5, n) |-> FallbackCitation(args.retrieved[i])]

\* the synthesizer has run on more results than it cites
C25_Witness ==
    /\ op = "fallback"
    /\ Len(args.retrieved) > 5
    /\ Len(Lookup(ret.m, K_citations).e) = 5
    /\ \E i, j \in 1..Len(args.retrieved) :
          args.retrieved[i].collection # args.retrieved[j].collection

\* ------------------------------------------------------------------------
\* Properties of the backend invocation
\* ------------------------------------------------------------------------
\* C26: within one answer_query_structured call the generative backend is
\* invoked at most once, a failed invocation is never retried, and it is not
\* invoked at all when the backend is absent or unconfigured, in which case
\* the answer is the fallback's and gemini_used is false.
C26_BackendInvokedAtMostOnce ==
    /\ gemini_calls <= 1
    /\ ~gemini_configured => gemini_calls = 0
    /\ (op = "answered" /\ ~gemini_configured) =>
           /\ ~ret.gemini_used
           /\ ret.structured_answer = FallbackAnswer(ret.sources)

\* a request whose backend call failed has returned with the fallback's answer
C26_Witness ==
    /\ op = "answered"
    /\ gemini_configured
    /\ gemini_calls = 1
    /\ ~ret.gemini_used
    /\ ret.sources # <<>>
    /\ ret.structured_answer = FallbackAnswer(ret.sources)

\* the step in which a run of process_and_index_file starts
RunStarts == task.pc = "scheduled" /\ task'.pc # "scheduled"

\* C27: process_and_index_file called when the document store has no record
\* of the document stops without raising, invokes neither parser, embedding
\* nor vector index, and leaves the partitions unchanged.
C27_UnknownDocumentStops ==
    [][(RunStarts /\ Coll_A \notin DOMAIN uploads)
          => /\ task' = [task EXCEPT !.pc = "finished", !.result = "file not found"]
             /\ task'.raw = PyNone
             /\ chroma' = chroma]_vars

\* a run has ended that way for a document deleted before the task ran, beside
\* another document's partition
C27_Witness ==
    /\ task.pc = "finished"
    /\ task.run = 1
    /\ task.result = "file not found"
    /\ deletion.pc = "finished"
    /\ Coll_B \in DOMAIN chroma
    /\ Coll_A \notin DOMAIN chroma

\* the step in which index_chunks is entered with the parser output
IndexChunksStarts == task.pc = "parsed" /\ task'.pc # "parsed"

\* C28: when parsing or normalisation of a document yields zero chunks, the
\* indexing run returns without error, requests no embeddings, and neither
\* creates nor modifies any partition.
C28_ZeroChunksNoWrite ==
    [][(IndexChunksStarts /\ NormalizedOf(task.raw) = <<>>)
          => /\ task' = [task EXCEPT !.pc = "finished", !.result = "nothing to index"]
             /\ chroma' = chroma]_vars

\* a run has ended that way on parser output that is not empty but
\* normalises to no chunk, with no partition for the document
C28_Witness ==
    /\ task.pc = "finished"
    /\ task.result = "nothing to index"
    /\ Truthy(task.raw)
    /\ Coll_A \notin DOMAIN chroma
    /\ deletion.pc = "none"

\* the ids and texts of normalised chunks
ChunkIdsAndTexts(chunks) ==
    [i \in 1..Len(chunks) |-> <<chunks[i].id.s, chunks[i].text>>]

\* C29: in every state during and after a single indexing run of a document,
\* also a run that fails while embedding or while writing, the partition of
\* the document holds no chunks or the complete normalised chunk set, never
\* a part of it.
C29_AllOrNothing ==
    (task.run = 1 /\ Coll_A \in DOMAIN chroma) =>
        \/ chroma[Coll_A] = <<>>
        \/ IdsAndTexts(chroma[Coll_A]) = ChunkIdsAndTexts(NormalizedOf(task.raw))

\* the write of a run on two chunks has failed and the partition is empty
C29_Witness ==
    /\ task.run = 1
    /\ task.pc = "finished"
    /\ task.result = "add failed"
    /\ Coll_A \in DOMAIN chroma
    /\ chroma[Coll_A] = <<>>
    /\ Len(NormalizedOf(task.raw)) >= 2

\* ------------------------------------------------------------------------
\* Properties of the conversation history
\* ------------------------------------------------------------------------
\* the step in which chat_with_history returns a ChatResponse
ChatWithHistoryResponds == op' = "chat_with_history" /\ ret'.status = 200

\* the conversations that got a turn in the step
AppendedTo ==
    {c \in DOMAIN conversations' :
        Len(conversations'[c]) > (IF c \in DOMAIN conversations
                                  THEN Len(conversations[c]) ELSE 0)}

\* C30: every response of chat_with_history carries a conversation_id that is
\* not null and is the id of the conversation to which the turn was appended,
\* both when the request supplied a conversation_id and when a conversation
\* was created for it.
C30_ResponseCarriesConversationId ==
    [][ChatWithHistoryResponds
          => /\ ret'.conversation_id # PyNone
             /\ \E c \in AppendedTo : ret'.conversation_id = PyStr(<<c>>)]_vars
====
